---- MODULE Spec2Model ----
(***************************************************************************)
(* Knowledge graph with Hebbian plasticity                                 *)
(* (core/knowledge_graph/knowledgeGraph.py) and the calls its collaborator *)
(* core/orchestrator/index.py makes on it.                                 *)
(*                                                                         *)
(* Representation.                                                         *)
(*  - A Python float is a fixed-point integer in units of 1/Scale; a       *)
(*    product of two floats is Mul (exact whenever the exact product is a  *)
(*    multiple of 1/Scale, rounded down otherwise).  An activation adds    *)
(*    one decimal place to a confidence, so the confidences reached by     *)
(*    activations alone within the bounds below are exact.                 *)
(*  - A str that the code sorts, formats or splits (an entity id, a        *)
(*    co-activation key of the saved document) is a tuple of one-character *)
(*    strings; labels, predicates and type tags are only ever compared for *)
(*    equality and are TLA+ strings.                                       *)
(*  - A dict is the sequence of its items in insertion order.              *)
(*  - datetime.utcnow() is the variable now, counted in ticks of           *)
(*    1/TicksPerDay day; None in a timestamp field is NoTime.              *)
(*  - The timestamp of an activation window entry, which no method reads,  *)
(*    is left out: an entry is its set of entity ids.                      *)
(***************************************************************************)
EXTENDS Integers, Sequences, FiniteSets, TLC

VARIABLES
    entities,             \* self.entities: id -> Entity, in insertion order
    relations,            \* self.relations: list of Relation
    label_to_id,          \* self.label_to_id: label -> id
    hebbian_config,       \* self.hebbian_config
    activation_window,    \* self.activation_window: list of (timestamp, set of ids), the sets
    coactivation_counts,  \* self.coactivation_counts: (e1, e2) -> count, in insertion order
    now,                  \* datetime.utcnow()
    uuid_stream,          \* the values the coming uuid.uuid4() calls return
    op,                   \* the method whose call led to this state ("tick": none, the clock advanced)
    raised,               \* the exception that call ended in, or NoError
    ret,                  \* the value that call returned, with the name of its type
    pruned,               \* the relations that call dropped from self.relations
    passes,               \* how many decay passes have run on the store
    file,                 \* the document save_to_json wrote, or NoFile
    kg2,                  \* a second KnowledgeGraph() that loaded the document, or NoStore
    requests              \* the web application's request threads: where each is in process_query, and its locals

vars == <<entities, relations, label_to_id, hebbian_config, activation_window, coactivation_counts, now, uuid_stream, op, raised, ret, pruned, passes, file, kg2, requests>>

store == <<entities, relations, label_to_id, hebbian_config, activation_window, coactivation_counts>>

(***************************************************************************)
(* Bounds of the model.                                                    *)
(***************************************************************************)
MaxRelations == 2

MaxActivations == 2

MaxWindow == 3

MaxNow == 2

MaxPasses == 2

\* the highest co-activation count: enough calls to fill the activation window and go past its cap
MaxCount == 103

\* how many entries at the start of a long run of co-activations vary
MaxVaried == 3

\* how many consolidations a store that is forgetting a relation runs
MaxForgetPasses == 144

\* how many threads of the web server handle requests at a time
MaxHandlers == 2

(***************************************************************************)
(* Numbers.                                                                *)
(***************************************************************************)
Scale == 1000000

\* Scale = Root * Root
Root == 1000

TicksPerDay == 2

\* a * b on floats: (a * b) \div Scale, computed in parts that stay within 32 bits
Mul(a, b) ==
    LET a1 == a \div Root
        a0 == a % Root
        b1 == b \div Root
        b0 == b % Root
    IN a1 * b1 + ((a1 * b0 + a0 * b1) + ((a0 * b0) \div Root)) \div Root

Min(a, b) == IF a <= b THEN a ELSE b

\* e^(-1/30) in units of 1/Scale
ExpNegThirtieth == 967216

RECURSIVE ExpNeg(_)
\* math.exp(-days / 30)
ExpNeg(days) ==
    IF days <= 0 THEN Scale ELSE Mul(ExpNeg(days - 1), ExpNegThirtieth)

(***************************************************************************)
(* Values.                                                                 *)
(***************************************************************************)
NoTime == -1

NoError == "none"

None == "None"

\* what ret holds after a call that returned value, an instance of type_
Returned(type_, value) == <<type_, value>>

\* the value in what ret holds
Value(returned) == returned[2]

\* after a call that returned None
ReturnedNone == Returned("NoneType", None)

\* file and kg2 hold at most one value: the empty sequence, or the value alone
NoFile == <<>>

NoStore == <<>>

\* the threads in which the web server runs process_query
Handlers == 1 .. MaxHandlers

\* a thread that is handling no request
Idle == [at |-> "idle", rm_result |-> <<>>, validation_results |-> <<>>]

\* no request is being handled
NoRequests == [h \in Handlers |-> Idle]

Labels == {"A", "B", "C"}

\* properties=None, stored as {}
NoProperties == <<>>

\* metadata=None, stored as {}
NoMetadata == <<>>

\* a properties dict a caller passes to add_entity
SomeProperties == << <<"color", "red">> >>

Predicates == {"links", "co_occurs_with"}

\* the initial confidences callers pass to add_relation: 0.0, 0.5, 1.5
Confidences == {0, Scale \div 2, (3 * Scale) \div 2}

\* the triples callers pass to activate_relation: the stored one, its reverse,
\* two with an unknown label, one with another predicate
ActivationTriples ==
    {<<"A", "links", "B">>, <<"B", "links", "A">>, <<"A", "links", "C">>,
     <<"C", "links", "B">>, <<"A", "co_occurs_with", "B">>}

\* the label lists callers pass to activate_entities
LabelLists == {<<>>, <<"A">>, <<"A", "B">>, <<"B", "A">>, <<"A", "A">>, <<"A", "B", "C">>}

\* str(uuid.uuid4()): hexadecimal digits and hyphens
UUIDs == {<<"1", "-", "4">>, <<"2", "-", "4">>, <<"3", "-", "4">>}

\* ids of entities that another store created and saved
SavedUUIDs == <<<<"7", "-", "4">>, <<"9", "-", "4">>, <<"8", "-", "4">>>>

\* ord(c) of the characters that occur
Ord ==
    ("-" :> 45) @@ ("1" :> 49) @@ ("2" :> 50) @@ ("3" :> 51) @@ ("4" :> 52) @@
    ("7" :> 55) @@ ("8" :> 56) @@ ("9" :> 57) @@ ("_" :> 95)

RECURSIVE StrLess(_, _)
\* s < t on Python str
StrLess(s, t) ==
    IF t = <<>> THEN FALSE
    ELSE IF s = <<>> THEN TRUE
    ELSE IF Head(s) # Head(t) THEN Ord[Head(s)] < Ord[Head(t)]
    ELSE StrLess(Tail(s), Tail(t))

\* tuple(sorted([e1, e2]))
SortedPair(e1, e2) == IF StrLess(e2, e1) THEN <<e2, e1>> ELSE <<e1, e2>>

\* the sequences of distinct values that successive uuid4() calls can return
Streams ==
    {u \in [1..Cardinality(UUIDs) -> UUIDs] : \A i, j \in DOMAIN u : u[i] = u[j] => i = j}

\* two of them: ids that sort in the order of creation, and in the opposite order
StreamsUpDown ==
    {u \in Streams : (\A i \in 1..(Len(u) - 1) : StrLess(u[i], u[i + 1])) \/ (\A i \in 1..(Len(u) - 1) : StrLess(u[i + 1], u[i]))}

\* the value the next uuid4() call returns (not used when nothing is drawn)
NextUuid(stream) == IF stream = <<>> THEN <<>> ELSE Head(stream)

Range(s) == {s[i] : i \in DOMAIN s}

DefaultConfig ==
    [learning_rate |-> Scale \div 10,
     decay_rate |-> Scale \div 20,
     emergence_threshold |-> 3,
     min_strength |-> Scale \div 10,
     max_strength |-> Scale]

(***************************************************************************)
(* Entity and Relation.                                                    *)
(***************************************************************************)
Entity(label, type_, properties, id) ==
    [id |-> id, label |-> label, type |-> type_, properties |-> properties]

\* created_at is the argument, or the time t of the call when it is None
Relation(subject_id, predicate, object_id, confidence, source, version, created_at, metadata, t) ==
    [subject_id |-> subject_id, predicate |-> predicate, object_id |-> object_id,
     confidence |-> confidence,
     created_at |-> IF created_at = NoTime THEN t ELSE created_at,
     source |-> source, version |-> version, metadata |-> metadata,
     activation_count |-> 0, last_activated |-> NoTime]

\* id in self.entities
HasEntity(ents, id) == \E i \in DOMAIN ents : ents[i].id = id

\* self.entities[id]
EntityOf(ents, id) == ents[CHOOSE i \in DOMAIN ents : ents[i].id = id]

UsedIds(ents) == {ents[i].id : i \in DOMAIN ents}

(***************************************************************************)
(* KnowledgeGraph.__init__                                                 *)
(***************************************************************************)
Init ==
    /\ entities = <<>>
    /\ relations = <<>>
    /\ label_to_id = <<>>
    /\ hebbian_config = DefaultConfig
    /\ activation_window = <<>>
    /\ coactivation_counts = <<>>
    /\ now = 0
    /\ uuid_stream \in StreamsUpDown
    /\ op = "__init__"
    /\ raised = NoError
    /\ ret = ReturnedNone
    /\ pruned = <<>>
    /\ passes = 0
    /\ file = NoFile
    /\ kg2 = NoStore
    /\ requests = NoRequests

\* add_entity that overwrites the type and properties of a known label
AddEntityUpdating(ents, l2i, label, type_, properties, u) ==
    IF label \in DOMAIN l2i
    THEN [entities |-> [i \in DOMAIN ents |->
                IF ents[i].label = label THEN Entity(label, type_, properties, ents[i].id) ELSE ents[i]],
          label_to_id |-> l2i, id |-> l2i[label]]
    ELSE [entities |-> Append(ents, Entity(label, type_, properties, u)),
          label_to_id |-> l2i @@ (label :> u),
          id |-> u]

\* the result of add_entity on (ents, l2i) when uuid4() yields u
AddEntity(ents, l2i, label, type_, properties, u) ==
    IF label \in DOMAIN l2i
    THEN [entities |-> ents, label_to_id |-> l2i, id |-> l2i[label]]
    ELSE [entities |-> Append(ents, Entity(label, type_, properties, u)),
          label_to_id |-> l2i @@ (label :> u),
          id |-> u]

\* how many uuid4() values add_entity draws for label: none for a known label
Drawn(l2i, label) == IF label \in DOMAIN l2i THEN 0 ELSE 1

add_entity(label, type_, properties) ==
    /\ Drawn(label_to_id, label) <= Len(uuid_stream)
    /\ LET r == AddEntity(entities, label_to_id, label, type_, properties, NextUuid(uuid_stream)) IN
        /\ entities' = r.entities
        /\ label_to_id' = r.label_to_id
        /\ uuid_stream' = SubSeq(uuid_stream, Drawn(label_to_id, label) + 1, Len(uuid_stream))
        /\ op' = "add_entity"
        /\ raised' = NoError
        /\ ret' = Returned("str", r.id)
        /\ pruned' = <<>>
        /\ UNCHANGED <<relations, hebbian_config, activation_window, coactivation_counts, now, passes, file, kg2, requests>>

\* the store after the two add_entity calls and the append of add_relation
AddRelation(ents, l2i, rels, stream, subject_label, predicate, object_label, confidence, t) ==
    LET s == AddEntity(ents, l2i, subject_label, "Thing", NoProperties, NextUuid(stream))
        rest == SubSeq(stream, Drawn(l2i, subject_label) + 1, Len(stream))
        o == AddEntity(s.entities, s.label_to_id, object_label, "Thing", NoProperties, NextUuid(rest))
        rel == Relation(s.id, predicate, o.id, confidence, None, None, NoTime, NoMetadata, t)
    IN
    [entities |-> o.entities, label_to_id |-> o.label_to_id,
     relations |-> Append(rels, rel),
     uuid_stream |-> SubSeq(rest, Drawn(s.label_to_id, object_label) + 1, Len(rest)),
     rel |-> rel]

\* the uuid4() values add_relation draws
DrawnByRelation(l2i, subject_label, object_label) ==
    Cardinality({subject_label, object_label} \ DOMAIN l2i)

add_relation(subject_label, predicate, object_label, confidence) ==
    /\ Len(relations) < MaxRelations
    /\ DrawnByRelation(label_to_id, subject_label, object_label) <= Len(uuid_stream)
    /\ LET r == AddRelation(entities, label_to_id, relations, uuid_stream, subject_label, predicate, object_label, confidence, now) IN
        /\ entities' = r.entities
        /\ label_to_id' = r.label_to_id
        /\ relations' = r.relations
        /\ uuid_stream' = r.uuid_stream
        /\ op' = "add_relation"
        /\ raised' = NoError
        /\ ret' = Returned("Relation", r.rel)
        /\ pruned' = <<>>
        /\ UNCHANGED <<hebbian_config, activation_window, coactivation_counts, now, passes, file, kg2, requests>>

(***************************************************************************)
(* Hebbian plasticity methods.                                             *)
(***************************************************************************)
\* the indices of the relations with the triple (subject_id, predicate, object_id)
Matching(rels, subject_id, predicate, object_id) ==
    {i \in DOMAIN rels : /\ rels[i].subject_id = subject_id
                         /\ rels[i].predicate = predicate
                         /\ rels[i].object_id = object_id}

\* the last of them
LastMatch(rels, subject_id, predicate, object_id) ==
    LET m == Matching(rels, subject_id, predicate, object_id) IN
    CHOOSE i \in m : \A j \in m : i >= j

\* the first of them: the one the loop reaches before its break
FirstMatch(rels, subject_id, predicate, object_id) ==
    LET m == Matching(rels, subject_id, predicate, object_id) IN
    CHOOSE i \in m : \A j \in m : i <= j

\* strengthening by a constant step, capped
StrengthenedLinear(confidence, cfg) ==
    Min(cfg.max_strength, confidence + cfg.learning_rate)

\* rel.confidence after the asymptotic strengthening
Strengthened(confidence, cfg) ==
    LET delta == Mul(cfg.learning_rate, cfg.max_strength - confidence) IN
    Min(cfg.max_strength, confidence + delta)

\* the relation after the body of the loop of activate_relation, at time t
Activated(rel, cfg, t) ==
    [rel EXCEPT !.confidence = Strengthened(rel.confidence, cfg),
                !.activation_count = rel.activation_count + 1,
                !.last_activated = t]

\* activate_relation that also matches a relation in the opposite direction
ActivateRelationEitherWay(rels, l2i, cfg, t, subject_label, predicate, object_label) ==
    IF subject_label \notin DOMAIN l2i \/ object_label \notin DOMAIN l2i
    THEN rels
    ELSE LET m == Matching(rels, l2i[subject_label], predicate, l2i[object_label])
                  \cup Matching(rels, l2i[object_label], predicate, l2i[subject_label])
         IN
         IF m = {} THEN rels
         ELSE [rels EXCEPT ![CHOOSE i \in m : \A j \in m : i <= j] = Activated(@, cfg, t)]

\* self.relations after activate_relation
ActivateRelation(rels, l2i, cfg, t, subject_label, predicate, object_label) ==
    IF subject_label \notin DOMAIN l2i \/ object_label \notin DOMAIN l2i
    THEN rels
    ELSE IF Matching(rels, l2i[subject_label], predicate, l2i[object_label]) = {}
    THEN rels
    ELSE LET i == FirstMatch(rels, l2i[subject_label], predicate, l2i[object_label]) IN
         [rels EXCEPT ![i] = Activated(rels[i], cfg, t)]

\* the loop finds a relation and self.hebbian_config lacks a key it then reads
ActivateRelationRaises(rels, l2i, cfg, subject_label, predicate, object_label) ==
    /\ subject_label \in DOMAIN l2i
    /\ object_label \in DOMAIN l2i
    /\ Matching(rels, l2i[subject_label], predicate, l2i[object_label]) # {}
    /\ ~({"learning_rate", "max_strength"} \subseteq DOMAIN cfg)

activate_relation(subject_label, predicate, object_label) ==
    /\ relations' = IF ActivateRelationRaises(relations, label_to_id, hebbian_config, subject_label, predicate, object_label)
                    THEN relations
                    ELSE ActivateRelation(relations, label_to_id, hebbian_config, now, subject_label, predicate, object_label)
    /\ \A i \in DOMAIN relations' : relations'[i].activation_count <= MaxActivations
    /\ op' = "activate_relation"
    /\ raised' = IF ActivateRelationRaises(relations, label_to_id, hebbian_config, subject_label, predicate, object_label)
                 THEN "KeyError" ELSE NoError
    /\ ret' = ReturnedNone
    /\ pruned' = <<>>
    /\ UNCHANGED <<entities, label_to_id, uuid_stream, hebbian_config, activation_window, coactivation_counts, now, passes, file, kg2, requests>>

\* the clock advances by one tick
tick ==
    /\ now < MaxNow
    /\ now' = now + 1
    /\ op' = "tick"
    /\ raised' = NoError
    /\ ret' = ReturnedNone
    /\ pruned' = <<>>
    /\ UNCHANGED <<store, uuid_stream, passes, file, kg2, requests>>

\* [self.label_to_id.get(label) for label in entity_labels if label in self.label_to_id]
EntityIds(l2i, entity_labels) ==
    LET known == SelectSeq(entity_labels, LAMBDA label : label \in DOMAIN l2i) IN
    [i \in 1..Len(known) |-> l2i[known[i]]]

RECURSIVE PairsFrom(_, _, _)
\* the pairs the nested loops of activate_entities visit, from (i, j) on, each sorted
PairsFrom(entity_ids, i, j) ==
    IF i > Len(entity_ids) THEN <<>>
    ELSE IF j > Len(entity_ids) THEN PairsFrom(entity_ids, i + 1, i + 2)
    ELSE <<SortedPair(entity_ids[i], entity_ids[j])>> \o PairsFrom(entity_ids, i, j + 1)

\* the dict after counts[pair] += 1 (a defaultdict(int): a missing key starts at 0)
Incremented(counts, pair) ==
    IF \E k \in DOMAIN counts : counts[k].key = pair
    THEN [k \in DOMAIN counts |->
            IF counts[k].key = pair THEN [counts[k] EXCEPT !.count = @ + 1] ELSE counts[k]]
    ELSE Append(counts, [key |-> pair, count |-> 1])

RECURSIVE CountPairs(_, _)
CountPairs(counts, pairs) ==
    IF pairs = <<>> THEN counts
    ELSE CountPairs(Incremented(counts, Head(pairs)), Tail(pairs))

\* the activation window keeps its last WindowCap entries
WindowCap == 100

\* a truncation that keeps the oldest entries
TruncatedToOldest(window) ==
    IF Len(window) > WindowCap THEN SubSeq(window, 1, WindowCap) ELSE window

Truncated(window) ==
    IF Len(window) > WindowCap
    THEN SubSeq(window, Len(window) - WindowCap + 1, Len(window))
    ELSE window

\* activation_window and coactivation_counts after activate_entities
ActivateEntities(window, counts, l2i, entity_labels) ==
    LET entity_ids == EntityIds(l2i, entity_labels) IN
    IF Len(entity_ids) < 2
    THEN [activation_window |-> window, coactivation_counts |-> counts]
    ELSE [activation_window |-> Truncated(Append(window, Range(entity_ids))),
          coactivation_counts |-> CountPairs(counts, PairsFrom(entity_ids, 1, 2))]

activate_entities(entity_labels) ==
    LET r == ActivateEntities(activation_window, coactivation_counts, label_to_id, entity_labels) IN
    /\ activation_window' = r.activation_window
    /\ coactivation_counts' = r.coactivation_counts
    /\ op' = "activate_entities"
    /\ raised' = NoError
    /\ ret' = ReturnedNone
    /\ pruned' = <<>>
    /\ UNCHANGED <<entities, relations, label_to_id, uuid_stream, hebbian_config, now, passes, file, kg2, requests>>

\* the call would leave at most MaxWindow entries in the activation window
WithinWindow(entity_labels) ==
    Len(ActivateEntities(activation_window, coactivation_counts, label_to_id, entity_labels).activation_window) <= MaxWindow

\* the check for an existing edge made in one direction only
ConnectedForward(rels, e1_id, e2_id) ==
    \E i \in DOMAIN rels : rels[i].subject_id = e1_id /\ rels[i].object_id = e2_id

\* some relation joins e1 and e2, in either direction
Connected(rels, e1_id, e2_id) ==
    \E i \in DOMAIN rels :
        \/ rels[i].subject_id = e1_id /\ rels[i].object_id = e2_id
        \/ rels[i].subject_id = e2_id /\ rels[i].object_id = e1_id

\* the initial strength without its cap
InitialStrengthUncapped(count) == count * (Scale \div 10)

\* min(0.5, count * 0.1)
InitialStrength(count) == Min(Scale \div 2, count * (Scale \div 10))

EmergentRelation(e1_id, e2_id, count, t) ==
    Relation(e1_id, "co_occurs_with", e2_id, InitialStrength(count), "hebbian_emergence", "emergent", NoTime, NoMetadata, t)

RECURSIVE EmergenceLoop(_, _, _, _, _, _, _)
\* the loop over self.coactivation_counts.items(), from item k on
EmergenceLoop(counts, k, rels, new_edges, ents, threshold, t) ==
    IF k > Len(counts)
    THEN [relations |-> rels, new_edges |-> new_edges, raised |-> NoError]
    ELSE LET e1_id == counts[k].key[1]
             e2_id == counts[k].key[2]
             count == counts[k].count
         IN
         IF count >= threshold /\ ~Connected(rels, e1_id, e2_id)
         THEN IF ~HasEntity(ents, e1_id) \/ ~HasEntity(ents, e2_id)
              THEN [relations |-> rels, new_edges |-> new_edges, raised |-> "KeyError"]
              ELSE EmergenceLoop(counts, k + 1,
                       Append(rels, EmergentRelation(e1_id, e2_id, count, t)),
                       Append(new_edges, <<EntityOf(ents, e1_id).label, EntityOf(ents, e2_id).label, InitialStrength(count)>>),
                       ents, threshold, t)
         ELSE EmergenceLoop(counts, k + 1, rels, new_edges, ents, threshold, t)

\* form_emergent_connections that drops the counters that reached the
\* threshold, fired or not, and keeps the others
FormEmergentConnectionsDroppingReached(rels, counts, ents, cfg, t) ==
    LET r == EmergenceLoop(counts, 1, rels, <<>>, ents, cfg.emergence_threshold, t) IN
    [relations |-> r.relations,
     coactivation_counts |-> SelectSeq(counts, LAMBDA c : c.count < cfg.emergence_threshold),
     new_edges |-> r.new_edges,
     raised |-> r.raised]

\* the store and the returned list after form_emergent_connections
FormEmergentConnections(rels, counts, ents, cfg, t) ==
    IF "emergence_threshold" \notin DOMAIN cfg
    THEN [relations |-> rels, coactivation_counts |-> counts, new_edges |-> <<>>, raised |-> "KeyError"]
    ELSE
    LET r == EmergenceLoop(counts, 1, rels, <<>>, ents, cfg.emergence_threshold, t) IN
    [relations |-> r.relations,
     coactivation_counts |-> IF r.raised = NoError /\ r.new_edges # <<>> THEN <<>> ELSE counts,
     new_edges |-> r.new_edges,
     raised |-> r.raised]

form_emergent_connections ==
    LET r == FormEmergentConnections(relations, coactivation_counts, entities, hebbian_config, now) IN
    /\ relations' = r.relations
    /\ coactivation_counts' = r.coactivation_counts
    /\ op' = "form_emergent_connections"
    /\ raised' = r.raised
    /\ ret' = IF r.raised = NoError THEN Returned("list", r.new_edges) ELSE ReturnedNone
    /\ pruned' = <<>>
    /\ UNCHANGED <<entities, label_to_id, uuid_stream, hebbian_config, activation_window, now, passes, file, kg2, requests>>

\* (now - last_active).days
DaysInactive(last_activated, t) == (t - last_activated) \div TicksPerDay

\* no decay at all
DecayNothing(days_inactive, cfg) == 0

\* decay_rate * (1 - math.exp(-days_inactive / 30))
Decay(days_inactive, cfg) == Mul(cfg.decay_rate, Scale - ExpNeg(days_inactive))

RECURSIVE DecayLoop(_, _, _, _, _, _)
\* the loop over self.relations, from relation k on
DecayLoop(rels, k, decayed, ents, cfg, t) ==
    IF k > Len(rels)
    THEN [relations |-> rels, decayed |-> decayed, raised |-> NoError]
    ELSE LET rel == rels[k] IN
         IF rel.last_activated = NoTime
         THEN DecayLoop(rels, k + 1, decayed, ents, cfg, t)
         ELSE IF DaysInactive(rel.last_activated, t) > 0
         THEN LET confidence == rel.confidence - Decay(DaysInactive(rel.last_activated, t), cfg)
                  after == [rels EXCEPT ![k].confidence = confidence]
              IN
              IF confidence > cfg.min_strength
              THEN IF ~HasEntity(ents, rel.subject_id) \/ ~HasEntity(ents, rel.object_id)
                   THEN [relations |-> after, decayed |-> decayed, raised |-> "KeyError"]
                   ELSE DecayLoop(after, k + 1,
                            Append(decayed, <<EntityOf(ents, rel.subject_id).label, rel.predicate,
                                              EntityOf(ents, rel.object_id).label, rel.confidence, confidence>>),
                            ents, cfg, t)
              ELSE DecayLoop(after, k + 1, decayed, ents, cfg, t)
         ELSE DecayLoop(rels, k + 1, decayed, ents, cfg, t)

\* pruning that does not exempt the relations never activated
KeptWeakOnly(rel, cfg) == rel.confidence >= cfg.min_strength

\* pruning that also drops a relation whose confidence equals min_strength
KeptAbove(rel, cfg) == rel.confidence > cfg.min_strength \/ rel.last_activated = NoTime

\* the condition of the list comprehension that prunes
Kept(rel, cfg) == rel.confidence >= cfg.min_strength \/ rel.last_activated = NoTime

\* the store and the returned list after apply_temporal_decay at time t
ApplyTemporalDecay(rels, ents, cfg, t) ==
    IF ~({"decay_rate", "min_strength"} \subseteq DOMAIN cfg)
    THEN [relations |-> rels, decayed |-> <<>>, pruned |-> <<>>, raised |-> "KeyError"]
    ELSE
    LET r == DecayLoop(rels, 1, <<>>, ents, cfg, t) IN
    IF r.raised # NoError
    THEN [relations |-> r.relations, decayed |-> r.decayed, pruned |-> <<>>, raised |-> r.raised]
    ELSE [relations |-> SelectSeq(r.relations, LAMBDA rel : Kept(rel, cfg)),
          decayed |-> r.decayed,
          pruned |-> SelectSeq(r.relations, LAMBDA rel : ~Kept(rel, cfg)),
          raised |-> NoError]

apply_temporal_decay ==
    LET r == ApplyTemporalDecay(relations, entities, hebbian_config, now) IN
    /\ relations' = r.relations
    /\ op' = "apply_temporal_decay"
    /\ raised' = r.raised
    /\ ret' = IF r.raised = NoError THEN Returned("list", r.decayed) ELSE ReturnedNone
    /\ pruned' = r.pruned
    /\ passes' = passes + 1
    /\ UNCHANGED <<entities, label_to_id, uuid_stream, hebbian_config, activation_window, coactivation_counts, now, file, kg2, requests>>

\* consolidation that decays and prunes before it forms the emergent connections
ConsolidateDecayFirst(rels, counts, ents, cfg, t) ==
    LET d == ApplyTemporalDecay(rels, ents, cfg, t)
        e == FormEmergentConnections(d.relations, counts, ents, cfg, t)
    IN
    [relations |-> e.relations, coactivation_counts |-> e.coactivation_counts,
     pruned |-> d.pruned, raised |-> NoError,
     ret |-> [emergent_edges |-> e.new_edges, decayed_edges |-> Len(d.decayed)]]

\* the store and the returned dict after consolidate_memory at time t
ConsolidateMemory(rels, counts, ents, cfg, t) ==
    LET e == FormEmergentConnections(rels, counts, ents, cfg, t)
        d == ApplyTemporalDecay(e.relations, ents, cfg, t)
    IN
    IF e.raised # NoError
    THEN [relations |-> e.relations, coactivation_counts |-> e.coactivation_counts,
          pruned |-> <<>>, raised |-> e.raised, ret |-> None]
    ELSE [relations |-> d.relations, coactivation_counts |-> e.coactivation_counts,
          pruned |-> d.pruned, raised |-> d.raised,
          ret |-> IF d.raised = NoError
                  THEN [emergent_edges |-> e.new_edges, decayed_edges |-> Len(d.decayed)]
                  ELSE None]

consolidate_memory ==
    \E r \in {ConsolidateMemory(relations, coactivation_counts, entities, hebbian_config, now)} :
    /\ relations' = r.relations
    /\ coactivation_counts' = r.coactivation_counts
    /\ op' = "consolidate_memory"
    /\ raised' = r.raised
    /\ ret' = IF r.raised = NoError THEN Returned("dict", r.ret) ELSE ReturnedNone
    /\ pruned' = r.pruned
    /\ passes' = passes + 1
    /\ UNCHANGED <<entities, label_to_id, uuid_stream, hebbian_config, activation_window, now, file, kg2, requests>>

\* knowledge_graph.increment_cycle_counters(): KnowledgeGraph defines no such
\* attribute, so the call raises AttributeError before anything is changed
increment_cycle_counters ==
    /\ op' = "increment_cycle_counters"
    /\ raised' = "AttributeError"
    /\ ret' = ReturnedNone
    /\ pruned' = <<>>
    /\ UNCHANGED <<store, now, uuid_stream, passes, file, kg2, requests>>

(***************************************************************************)
(* save_to_json and load_from_json.                                        *)
(***************************************************************************)
Entity_to_dict(e) == [id |-> e.id, label |-> e.label, type |-> e.type, properties |-> e.properties]

Entity_from_dict(data) ==
    Entity(data.label, data.type, IF "properties" \in DOMAIN data THEN data.properties ELSE NoProperties, data.id)

Relation_to_dict(rel) ==
    [subject_id |-> rel.subject_id, predicate |-> rel.predicate, object_id |-> rel.object_id,
     confidence |-> rel.confidence, created_at |-> rel.created_at,
     source |-> rel.source, version |-> rel.version, metadata |-> rel.metadata,
     activation_count |-> rel.activation_count, last_activated |-> rel.last_activated]

\* data.get(key, default)
Get(data, key, default) == IF key \in DOMAIN data THEN data[key] ELSE default

\* Relation.from_dict at time t
Relation_from_dict(data, t) ==
    [Relation(data.subject_id, data.predicate, data.object_id,
              Get(data, "confidence", Scale), Get(data, "source", None), Get(data, "version", None),
              Get(data, "created_at", NoTime), Get(data, "metadata", NoMetadata), t)
        EXCEPT !.activation_count = Get(data, "activation_count", 0),
               !.last_activated = Get(data, "last_activated", NoTime)]

\* f"{k[0]}_{k[1]}"
KeyString(k) == k[1] \o <<"_">> \o k[2]

RECURSIVE Split(_, _)
\* s.split(sep), sep one character
Split(s, sep) ==
    IF s = <<>> THEN << <<>> >>
    ELSE LET rest == Split(Tail(s), sep) IN
         IF Head(s) = sep
         THEN << <<>> >> \o rest
         ELSE << <<Head(s)>> \o Head(rest) >> \o Tail(rest)

\* the dict after d[key] = val: a known key keeps its place
SetItem(d, key, val) ==
    IF \E k \in DOMAIN d : d[k].key = key
    THEN [k \in DOMAIN d |-> IF d[k].key = key THEN [key |-> key, count |-> val] ELSE d[k]]
    ELSE Append(d, [key |-> key, count |-> val])

RECURSIVE StringKeyed(_, _)
\* {f"{k[0]}_{k[1]}": v for k, v in counts.items()}, built on d
StringKeyed(counts, d) ==
    IF counts = <<>> THEN d
    ELSE StringKeyed(Tail(counts), SetItem(d, KeyString(Head(counts).key), Head(counts).count))

\* the document save_to_json dumps
SaveToJson(ents, rels, cfg, counts) ==
    [entities |-> [i \in DOMAIN ents |-> Entity_to_dict(ents[i])],
     relations |-> [i \in DOMAIN rels |-> Relation_to_dict(rels[i])],
     hebbian_config |-> cfg,
     coactivation_counts |-> StringKeyed(counts, <<>>)]

save_to_json ==
    /\ file = NoFile
    /\ file' = <<SaveToJson(entities, relations, hebbian_config, coactivation_counts)>>
    /\ op' = "save_to_json"
    /\ raised' = NoError
    /\ ret' = ReturnedNone
    /\ pruned' = <<>>
    /\ UNCHANGED <<store, now, uuid_stream, passes, kg2, requests>>

RECURSIVE LoadEntities(_, _, _)
\* the loop over data["entities"]: self.entities[ent.id] = ent, self.label_to_id[ent.label] = ent.id;
\* Entity.from_dict raises KeyError on a dict without "label", "type" or "id"
LoadEntities(dicts, ents, l2i) ==
    IF dicts = <<>> THEN [entities |-> ents, label_to_id |-> l2i, raised |-> NoError]
    ELSE IF ~({"label", "type", "id"} \subseteq DOMAIN Head(dicts))
    THEN [entities |-> ents, label_to_id |-> l2i, raised |-> "KeyError"]
    ELSE LET ent == Entity_from_dict(Head(dicts)) IN
         LoadEntities(Tail(dicts),
             IF HasEntity(ents, ent.id)
             THEN [i \in DOMAIN ents |-> IF ents[i].id = ent.id THEN ent ELSE ents[i]]
             ELSE Append(ents, ent),
             (ent.label :> ent.id) @@ l2i)

RECURSIVE LoadCounts(_, _)
\* the loop over data["coactivation_counts"].items(); e1, e2 = key.split("_")
\* raises ValueError unless the key splits in two
LoadCounts(items, counts) ==
    IF items = <<>> THEN [coactivation_counts |-> counts, raised |-> NoError]
    ELSE LET parts == Split(Head(items).key, "_") IN
         IF Len(parts) # 2
         THEN [coactivation_counts |-> counts, raised |-> "ValueError"]
         ELSE LoadCounts(Tail(items), SetItem(counts, <<parts[1], parts[2]>>, Head(items).count))

RECURSIVE LoadRelations(_, _, _)
\* the loop over data["relations"]: self.relations.append(rel); Relation.from_dict
\* raises KeyError on a dict without "subject_id", "predicate" or "object_id"
LoadRelations(dicts, rels, t) ==
    IF dicts = <<>> THEN [relations |-> rels, raised |-> NoError]
    ELSE IF ~({"subject_id", "predicate", "object_id"} \subseteq DOMAIN Head(dicts))
    THEN [relations |-> rels, raised |-> "KeyError"]
    ELSE LoadRelations(Tail(dicts), Append(rels, Relation_from_dict(Head(dicts), t)), t)

\* load_from_json, from line 343 on, of data at time t by a store with this
\* configuration, these co-activation counters and this activation window;
\* an exception leaves what the statements before it assigned
Load(cfg, counts, window, data, t) ==
    LET e == IF "entities" \in DOMAIN data
             THEN LoadEntities(data.entities, <<>>, <<>>)
             ELSE [entities |-> <<>>, label_to_id |-> <<>>, raised |-> "KeyError"]
        r == IF e.raised # NoError THEN [relations |-> <<>>, raised |-> e.raised]
             ELSE IF "relations" \notin DOMAIN data THEN [relations |-> <<>>, raised |-> "KeyError"]
             ELSE LoadRelations(data.relations, <<>>, t)
        c == IF r.raised # NoError THEN [coactivation_counts |-> counts, raised |-> r.raised]
             ELSE IF "coactivation_counts" \in DOMAIN data
             THEN LoadCounts(data.coactivation_counts, <<>>)
             ELSE [coactivation_counts |-> counts, raised |-> NoError]
    IN
    [entities |-> e.entities,
     relations |-> r.relations,
     label_to_id |-> e.label_to_id,
     hebbian_config |-> IF r.raised = NoError /\ "hebbian_config" \in DOMAIN data THEN data.hebbian_config @@ cfg ELSE cfg,
     activation_window |-> window,
     coactivation_counts |-> c.coactivation_counts,
     raised |-> c.raised]

\* a load that takes the persisted configuration in place of the current one
LoadResettingConfig(ents, rels, l2i, cfg, counts, window, data, t) ==
    [Load(cfg, counts, window, data, t) EXCEPT
        !.hebbian_config = IF "hebbian_config" \in DOMAIN data THEN data.hebbian_config @@ DefaultConfig ELSE DefaultConfig]

\* a load that keeps the labels the index held
LoadKeepingIndex(ents, rels, l2i, cfg, counts, window, data, t) ==
    [Load(cfg, counts, window, data, t) EXCEPT !.label_to_id = @ @@ l2i]

\* the load of a store that holds ents, rels and l2i: they are dropped, unless
\* open or json.load raises.  A file on which they raise is the record of the
\* exception.
LoadReplacing(ents, rels, l2i, cfg, counts, window, data, t) ==
    IF "raises" \in DOMAIN data
    THEN [entities |-> ents, relations |-> rels, label_to_id |-> l2i, hebbian_config |-> cfg,
          activation_window |-> window, coactivation_counts |-> counts, raised |-> data.raises]
    ELSE Load(cfg, counts, window, data, t)

\* a store constructed with KnowledgeGraph() after load_from_json of data at time t
LoadFromJson(data, t) == Load(DefaultConfig, <<>>, <<>>, data, t)

\* kg2 = KnowledgeGraph(); kg2.load_from_json(filepath)
load_from_json ==
    /\ file # NoFile
    /\ kg2 = NoStore
    /\ kg2' = <<LoadFromJson(file[1], now)>>
    /\ op' = "load_from_json"
    /\ raised' = LoadFromJson(file[1], now).raised
    /\ ret' = ReturnedNone
    /\ pruned' = <<>>
    /\ UNCHANGED <<store, now, uuid_stream, passes, file, requests>>

\* self.load_from_json(filepath) by the store itself, whatever it holds
load_from_json_in_place ==
    /\ file # NoFile
    /\ LET r == LoadReplacing(entities, relations, label_to_id, hebbian_config, coactivation_counts, activation_window, file[1], now) IN
        /\ entities' = r.entities
        /\ relations' = r.relations
        /\ label_to_id' = r.label_to_id
        /\ hebbian_config' = r.hebbian_config
        /\ coactivation_counts' = r.coactivation_counts
        /\ raised' = r.raised
    /\ op' = "load_from_json"
    /\ ret' = ReturnedNone
    /\ pruned' = <<>>
    /\ UNCHANGED <<activation_window, now, uuid_stream, passes, file, kg2, requests>>

(***************************************************************************)
(* Strengthening and decay: relations from A to B of every initial         *)
(* confidence, added before the clock advances, activations with known and *)
(* unknown labels, the cycle counter call, decay passes, the clock         *)
(* advancing between the calls.                                            *)
(***************************************************************************)
Next ==
    \/ now = 0 /\ \E c \in Confidences : add_relation("A", "links", "B", c)
    \/ \E x \in ActivationTriples : activate_relation(x[1], x[2], x[3])
    \/ increment_cycle_counters
    \/ passes < MaxPasses /\ apply_temporal_decay
    \/ passes < MaxPasses /\ consolidate_memory
    \/ tick

Spec == Init /\ [][Next]_vars

(***************************************************************************)
(* Emergence: entities A, B, C in any order and with ids in any order, a   *)
(* relation between B and C, co-activations of known and unknown labels.   *)
(***************************************************************************)
InitEmergence ==
    /\ entities = <<>>
    /\ relations = <<>>
    /\ label_to_id = <<>>
    /\ hebbian_config = DefaultConfig
    /\ activation_window = <<>>
    /\ coactivation_counts = <<>>
    /\ now = 0
    /\ uuid_stream \in Streams
    /\ op = "__init__"
    /\ raised = NoError
    /\ ret = ReturnedNone
    /\ pruned = <<>>
    /\ passes = 0
    /\ file = NoFile
    /\ kg2 = NoStore
    /\ requests = NoRequests

NextEmergence ==
    \/ \E label \in Labels : add_entity(label, "Concept", SomeProperties)
    \/ add_relation("B", "links", "C", Scale \div 2)
    \/ \E labels \in LabelLists : WithinWindow(labels) /\ activate_entities(labels)
    \/ form_emergent_connections

SpecEmergence == InitEmergence /\ [][NextEmergence]_vars

(***************************************************************************)
(* A collaborator's whole cycle on one store: a weak relation from A to B, *)
(* the entity C, co-activations of A, B and C, consolidation.              *)
(***************************************************************************)
NextCycle ==
    \/ add_entity("C", "Thing", NoProperties)
    \/ now = 0 /\ add_relation("A", "links", "B", 0)
    \/ activate_relation("A", "links", "B")
    \/ WithinWindow(<<"A", "B", "C">>) /\ activate_entities(<<"A", "B", "C">>)
    \/ increment_cycle_counters
    \/ form_emergent_connections
    \/ passes < MaxPasses /\ apply_temporal_decay
    \/ passes < MaxPasses /\ consolidate_memory
    \/ tick

SpecCycle == Init /\ [][NextCycle]_vars

(***************************************************************************)
(* Persistence: a store built by the calls of a cycle is saved once and    *)
(* the document is loaded into a second, fresh store.                      *)
(***************************************************************************)
NextRoundTrip ==
    \/ file = NoFile /\ add_entity("C", "Concept", SomeProperties)
    \/ file = NoFile /\ now = 0 /\ add_relation("A", "links", "B", Scale \div 2)
    \/ file = NoFile /\ activate_relation("A", "links", "B")
    \/ file = NoFile /\ WithinWindow(<<"A", "B", "C">>) /\ activate_entities(<<"A", "B", "C">>)
    \/ file = NoFile /\ increment_cycle_counters
    \/ file = NoFile /\ passes < MaxPasses /\ consolidate_memory
    \/ file = NoFile /\ tick
    \/ save_to_json
    \/ load_from_json

SpecRoundTrip == Init /\ [][NextRoundTrip]_vars

(***************************************************************************)
(* A long run of co-activations: the entities A, B and C, a few entries of *)
(* either kind, then co-activations of A and B until the activation window *)
(* has passed its cap; emergence at any point, after which A and B are no  *)
(* longer co-activated.                                                    *)
(***************************************************************************)
\* no co-activation counter has reached MaxCount
UnderMaxCount == \A k \in DOMAIN coactivation_counts : coactivation_counts[k].count < MaxCount

NextWindow ==
    \/ activation_window = <<>> /\ \E label \in Labels : add_entity(label, "Concept", NoProperties)
    \/ Len(activation_window) < MaxVaried /\ activate_entities(<<"A", "B", "C">>)
    \/ UnderMaxCount /\ relations = <<>> /\ activate_entities(<<"B", "A">>)
    \/ form_emergent_connections

SpecWindow == Init /\ [][NextWindow]_vars

(***************************************************************************)
(* Documents that another store saved, as json.load returns them.          *)
(***************************************************************************)
\* a configuration passed to KnowledgeGraph(hebbian_config=...)
CustomConfig ==
    [learning_rate |-> (3 * Scale) \div 10,
     decay_rate |-> Scale \div 20,
     emergence_threshold |-> 2,
     min_strength |-> Scale \div 5,
     max_strength |-> Scale]

\* the entities of the saved store: two persons and a company
SavedEntities ==
    <<Entity("A", "Person", NoProperties, SavedUUIDs[1]),
      Entity("B", "Person", SomeProperties, SavedUUIDs[2]),
      Entity("C", "Company", NoProperties, SavedUUIDs[3])>>

\* the confidences of its three relations: 0.9, 0.3, 0.7 or 0.7, 0.9, 0.7
SavedConfidences ==
    {<<(9 * Scale) \div 10, (3 * Scale) \div 10, (7 * Scale) \div 10>>,
     <<(7 * Scale) \div 10, (9 * Scale) \div 10, (7 * Scale) \div 10>>}

\* its relations: A knows B, A works_at C, B works_at C, created at times 0, 1, 2
SavedRelations(confidences) ==
    <<Relation(SavedUUIDs[1], "knows", SavedUUIDs[2], confidences[1], "doc", None, 0, << <<"topic", "x">> >>, 0),
      [Relation(SavedUUIDs[1], "works_at", SavedUUIDs[3], confidences[2], None, None, 1, NoMetadata, 1)
          EXCEPT !.activation_count = 1, !.last_activated = 1],
      Relation(SavedUUIDs[2], "works_at", SavedUUIDs[3], confidences[3], "doc", None, 2, << <<"topic", "x">>, <<"year", "y">> >>, 2)>>

\* its co-activation counters
SavedCounts == <<[key |-> SortedPair(SavedUUIDs[1], SavedUUIDs[2]), count |-> 2]>>

\* the record d without the key
Without(d, key) == [k \in DOMAIN d \ {key} |-> d[k]]

\* the documents: written in full; with a configuration of one field; written
\* by a version that saved no configuration; or no co-activation counters
Documents ==
    LET full == {SaveToJson(SavedEntities, SavedRelations(c), CustomConfig, SavedCounts) : c \in SavedConfidences} IN
    full
    \cup {[d EXCEPT !.hebbian_config = [learning_rate |-> Scale \div 5]] : d \in full}
    \cup {Without(d, "hebbian_config") : d \in full}
    \cup {Without(d, "coactivation_counts") : d \in full}

(***************************************************************************)
(* Loading: a store built with either configuration, a document on disk    *)
(* from another store or none yet, the store's own calls, a save when      *)
(* there is no document, and loads of the document by the store itself.    *)
(***************************************************************************)
InitLoad ==
    /\ entities = <<>>
    /\ relations = <<>>
    /\ label_to_id = <<>>
    /\ hebbian_config \in {DefaultConfig, CustomConfig}
    /\ activation_window = <<>>
    /\ coactivation_counts = <<>>
    /\ now = 0
    /\ uuid_stream \in StreamsUpDown
    /\ op = "__init__"
    /\ raised = NoError
    /\ ret = ReturnedNone
    /\ pruned = <<>>
    /\ passes = 0
    /\ file \in {NoFile} \cup {<<d>> : d \in Documents}
    /\ kg2 = NoStore
    /\ requests = NoRequests

NextLoad ==
    \/ add_entity("D", "Concept", SomeProperties)
    \/ \E o \in {"B", "D"} : add_relation("A", "links", o, Scale \div 2)
    \/ activate_relation("A", "links", "B")
    \/ WithinWindow(<<"A", "B">>) /\ activate_entities(<<"A", "B">>)
    \/ save_to_json
    \/ load_from_json_in_place

SpecLoad == InitLoad /\ [][NextLoad]_vars

(***************************************************************************)
(* query and get_strongest_edges.                                          *)
(***************************************************************************)
\* An optional argument is the empty sequence when it is None and the value
\* alone otherwise.  The empty string passed as a timestamp sorts before
\* every timestamp.
EmptyStamp == -1

\* the argument is given and is not "", 0 or {}: what `if arg` tests
TruthyString(arg) == arg # <<>> /\ arg[1] # ""

TruthyNumber(arg) == arg # <<>> /\ arg[1] # 0

TruthyStamp(arg) == arg # <<>> /\ arg[1] # EmptyStamp

TruthyDict(arg) == arg # <<>> /\ arg[1] # <<>>

\* metadata.get(k) == v, for a dict as the sequence of its items
HasItem(metadata, k, v) == \E i \in DOMAIN metadata : metadata[i] = <<k, v>>

\* the for/else over metadata_filter.items(): no item makes the loop break
AllItemsMatch(metadata, filter) == \A i \in DOMAIN filter : HasItem(metadata, filter[i][1], filter[i][2])

\* the relation reaches results.append: no continue is taken
Passes(rel, subj, obj, q) ==
    /\ ~(TruthyString(q.subject) /\ subj.label # q.subject[1])
    /\ ~(TruthyString(q.subject_type) /\ subj.type # q.subject_type[1])
    /\ ~(TruthyString(q.object_) /\ obj.label # q.object_[1])
    /\ ~(TruthyString(q.object_type) /\ obj.type # q.object_type[1])
    /\ ~(TruthyString(q.predicate) /\ rel.predicate # q.predicate[1])
    /\ ~(TruthyNumber(q.min_confidence) /\ rel.confidence < q.min_confidence[1])
    /\ ~(TruthyStamp(q.after) /\ rel.created_at < q.after[1])
    /\ ~(TruthyStamp(q.before) /\ rel.created_at > q.before[1])
    /\ TruthyDict(q.metadata_filter) => AllItemsMatch(rel.metadata, q.metadata_filter[1])

RECURSIVE QueryLoop(_, _, _, _, _)
\* the loop over self.relations, from relation k on
QueryLoop(rels, ents, q, k, results) ==
    IF k > Len(rels) THEN results
    ELSE LET rel == rels[k]
             subj == EntityOf(ents, rel.subject_id)
             obj == EntityOf(ents, rel.object_id)
         IN
         QueryLoop(rels, ents, q, k + 1,
             IF Passes(rel, subj, obj, q) THEN Append(results, <<subj, rel, obj>>) ELSE results)

Query(rels, ents, q) == QueryLoop(rels, ents, q, 1, <<>>)

\* query() with no argument
NoFilters ==
    [subject |-> <<>>, predicate |-> <<>>, object_ |-> <<>>, subject_type |-> <<>>,
     object_type |-> <<>>, min_confidence |-> <<>>, after |-> <<>>, before |-> <<>>,
     metadata_filter |-> <<>>]

\* the calls of query that are made
Queries ==
    {NoFilters,
     [NoFilters EXCEPT !.subject = <<"A">>],
     [NoFilters EXCEPT !.subject = <<"">>],
     [NoFilters EXCEPT !.predicate = <<"works_at">>],
     [NoFilters EXCEPT !.object_ = <<"C">>, !.subject = <<"A">>],
     [NoFilters EXCEPT !.subject_type = <<"Person">>, !.object_type = <<"Company">>],
     [NoFilters EXCEPT !.object_type = <<"Person">>],
     [NoFilters EXCEPT !.min_confidence = <<Scale \div 2>>],
     [NoFilters EXCEPT !.min_confidence = <<0>>],
     [NoFilters EXCEPT !.after = <<1>>],
     [NoFilters EXCEPT !.before = <<1>>],
     [NoFilters EXCEPT !.before = <<EmptyStamp>>],
     [NoFilters EXCEPT !.metadata_filter = << << <<"topic", "x">> >> >>],
     [NoFilters EXCEPT !.metadata_filter = << << <<"topic", "x">>, <<"year", "y">> >> >>],
     [NoFilters EXCEPT !.metadata_filter = << << <<"topic", "x">> >> >>, !.subject = <<"B">>],
     [NoFilters EXCEPT !.metadata_filter = << <<>> >>, !.predicate = <<"knows">>]}

query(q) ==
    /\ op' = "query"
    /\ raised' = NoError
    /\ ret' = Returned("list", Query(relations, entities, q))
    /\ pruned' = <<>>
    /\ UNCHANGED <<store, now, uuid_stream, passes, file, kg2, requests>>

\* (subj, rel.predicate, obj, rel.confidence)
EdgeStrength(rel, ents) ==
    <<EntityOf(ents, rel.subject_id).label, rel.predicate, EntityOf(ents, rel.object_id).label, rel.confidence>>

RECURSIVE InsertedAfterEquals(_, _)
\* x put into the descending sequence s behind the elements not weaker than it
InsertedAfterEquals(s, x) ==
    IF s = <<>> THEN <<x>>
    ELSE IF Head(s)[4] >= x[4] THEN <<Head(s)>> \o InsertedAfterEquals(Tail(s), x)
    ELSE <<x>> \o s

RECURSIVE InsertedBeforeEquals(_, _)
\* x put into the descending sequence s before the elements not stronger than it
InsertedBeforeEquals(s, x) ==
    IF s = <<>> THEN <<x>>
    ELSE IF Head(s)[4] > x[4] THEN <<Head(s)>> \o InsertedBeforeEquals(Tail(s), x)
    ELSE <<x>> \o s

\* where the stable sort puts x among the elements already sorted
Inserted(s, x) == InsertedAfterEquals(s, x)

RECURSIVE SortedByStrength(_, _)
\* edge_strengths.sort(key=lambda x: x[3], reverse=True): a stable sort, so
\* equal keys keep their order in the list
SortedByStrength(edge_strengths, sorted) ==
    IF edge_strengths = <<>> THEN sorted
    ELSE SortedByStrength(Tail(edge_strengths), Inserted(sorted, Head(edge_strengths)))

\* edge_strengths[:top_k] for top_k >= 0
GetStrongestEdges(rels, ents, top_k) ==
    LET edge_strengths == [i \in DOMAIN rels |-> EdgeStrength(rels[i], ents)]
        sorted == SortedByStrength(edge_strengths, <<>>)
    IN SubSeq(sorted, 1, Min(top_k, Len(sorted)))

\* the values of top_k that are passed
TopKs == 0..4

get_strongest_edges(top_k) ==
    /\ op' = "get_strongest_edges"
    /\ raised' = NoError
    /\ ret' = Returned("list", GetStrongestEdges(relations, entities, top_k))
    /\ pruned' = <<>>
    /\ UNCHANGED <<store, now, uuid_stream, passes, file, kg2, requests>>

(***************************************************************************)
(* Reading: a store that loads a document of another store, or that adds   *)
(* relations of its own, and is then queried.                              *)
(***************************************************************************)
InitQuery ==
    /\ entities = <<>>
    /\ relations = <<>>
    /\ label_to_id = <<>>
    /\ hebbian_config = DefaultConfig
    /\ activation_window = <<>>
    /\ coactivation_counts = <<>>
    /\ now = 0
    /\ uuid_stream \in StreamsUpDown
    /\ op = "__init__"
    /\ raised = NoError
    /\ ret = ReturnedNone
    /\ pruned = <<>>
    /\ passes = 0
    /\ file \in {<<d>> : d \in Documents}
    /\ kg2 = NoStore
    /\ requests = NoRequests

NextQuery ==
    \/ \E c \in {0, Scale \div 2} : add_relation("A", "links", "B", c)
    \/ activate_relation("A", "links", "B")
    \/ load_from_json_in_place
    \/ \E q \in Queries : query(q)
    \/ \E top_k \in TopKs : get_strongest_edges(top_k)

SpecQuery == InitQuery /\ [][NextQuery]_vars

(***************************************************************************)
(* Strengthening.                                                          *)
(***************************************************************************)
\* the relations a step has activated
ActivatedBy(before, after) ==
    {i \in DOMAIN before : after[i].activation_count # before[i].activation_count}

\* C1: every activate_relation call leaves the relation it matches, whatever
\* confidence add_relation gave it, with a confidence that is at least its
\* confidence before the call and at most max_strength.
C1_NeverWeakens ==
    [][op' = "activate_relation" =>
        \A i \in ActivatedBy(relations, relations') :
            /\ relations'[i].confidence >= relations[i].confidence
            /\ relations'[i].confidence <= hebbian_config.max_strength]_vars

Dormant(rels) == SelectSeq(rels, LAMBDA rel : rel.last_activated = NoTime)

DecayCalls == {"apply_temporal_decay", "consolidate_memory"}

\* C3: increment_cycle_counters, apply_temporal_decay and consolidate_memory
\* leave every relation that was never activated in the store, with its
\* confidence, whatever that confidence is.
C3_DormantNeverPruned ==
    [][op' \in DecayCalls \cup {"increment_cycle_counters"} =>
        /\ Len(Dormant(relations)) <= Len(Dormant(relations'))
        /\ SubSeq(Dormant(relations'), 1, Len(Dormant(relations))) = Dormant(relations)]_vars

\* a decay pass has pruned a relation and kept a never activated one that is
\* weaker than min_strength
C3_Witness ==
    /\ op \in DecayCalls
    /\ pruned # <<>>
    /\ \E i \in DOMAIN relations :
        /\ relations[i].last_activated = NoTime
        /\ relations[i].confidence < hebbian_config.min_strength

\* C4: when apply_temporal_decay or consolidate_memory returns, no relation of
\* the store has been activated and is weaker than min_strength; and every
\* relation the call removed had been activated and was weaker than
\* min_strength when it was removed.
C4_PrunedExactlyWeakActivated ==
    [][op' \in DecayCalls =>
        /\ \A i \in DOMAIN relations' :
            ~(relations'[i].last_activated # NoTime /\ relations'[i].confidence < hebbian_config.min_strength)
        /\ \A i \in DOMAIN pruned' :
            pruned'[i].last_activated # NoTime /\ pruned'[i].confidence < hebbian_config.min_strength
        /\ Len(relations') + Len(pruned') = Len(relations)]_vars

\* a decay pass has removed a relation that had been activated, at a
\* confidence that decay had brought under min_strength
C4_Witness ==
    /\ op \in DecayCalls
    /\ Len(pruned) = 1
    /\ pruned[1].activation_count = 1
    /\ pruned[1].confidence < hebbian_config.min_strength

\* C5: what apply_temporal_decay does to the relations depends on their cycle
\* counters and not on wall-clock time, so the call made at any other time
\* would leave the same relations with the same confidences.
C5_DecayIgnoresWallClock ==
    [][op' = "apply_temporal_decay" =>
        \A t \in 0..MaxNow :
            ApplyTemporalDecay(relations, entities, hebbian_config, t).relations = relations']_vars

\* C6: increment_cycle_counters is an operation of the store: the call
\* completes, and afterwards every relation activated at least once carries a
\* cycles_since_last_activation counter.
C6_CycleCountersKept ==
    op = "increment_cycle_counters" =>
        /\ raised = NoError
        /\ \A i \in DOMAIN relations :
            relations[i].last_activated # NoTime => "cycles_since_last_activation" \in DOMAIN relations[i]

(***************************************************************************)
(* Emergence.                                                              *)
(***************************************************************************)
\* the co-activation count of the pair {a, b}
CountOf(counts, a, b) ==
    LET ks == {k \in DOMAIN counts : counts[k].key = <<a, b>> \/ counts[k].key = <<b, a>>} IN
    IF ks = {} THEN 0 ELSE counts[CHOOSE k \in ks : TRUE].count

\* the relations a step has appended that join a and b
CreatedBetween(before, after, a, b) ==
    {k \in (Len(before) + 1)..Len(after) :
        \/ after[k].subject_id = a /\ after[k].object_id = b
        \/ after[k].subject_id = b /\ after[k].object_id = a}

\* C7: form_emergent_connections creates a relation between the entities a and
\* b if and only if their co-activation count is at least emergence_threshold
\* and no relation joins them in either direction; it creates one relation for
\* such a pair, with predicate co_occurs_with, and nothing else.  (A relation
\* appended earlier in the same call joins another pair, so the relations before
\* the call are the relations that exist when the pair is examined.)
C7_EmergenceIffThresholdAndUnconnected ==
    [][op' = "form_emergent_connections" =>
        /\ Len(relations') >= Len(relations)
        /\ SubSeq(relations', 1, Len(relations)) = relations
        /\ \A k \in (Len(relations) + 1)..Len(relations') : relations'[k].predicate = "co_occurs_with"
        /\ \A a \in UsedIds(entities), b \in UsedIds(entities) :
            Cardinality(CreatedBetween(relations, relations', a, b)) =
                IF /\ CountOf(coactivation_counts, a, b) >= hebbian_config.emergence_threshold
                   /\ ~\E i \in DOMAIN relations :
                        \/ relations[i].subject_id = a /\ relations[i].object_id = b
                        \/ relations[i].subject_id = b /\ relations[i].object_id = a
                THEN 1 ELSE 0]_vars

\* three pairs had reached the threshold, one of them joined by a relation:
\* the call has created the two other edges
C7_Witness ==
    /\ op = "form_emergent_connections"
    /\ Len(Value(ret)) = 2
    /\ \E i \in DOMAIN relations : relations[i].predicate = "links"
    /\ Cardinality({i \in DOMAIN relations : relations[i].predicate = "co_occurs_with"}) = 2

(***************************************************************************)
(* Consolidation.                                                          *)
(***************************************************************************)
\* C9: consolidate_memory leaves the store as form_emergent_connections
\* followed by apply_temporal_decay leaves it, returns the emergent edges of
\* the former and the number of decayed edges of the latter, and the relations
\* the emergence step created are in the store afterwards as created.
C9_ConsolidateIsEmergenceThenDecay ==
    [][op' = "consolidate_memory" =>
        LET e == FormEmergentConnections(relations, coactivation_counts, entities, hebbian_config, now)
            d == ApplyTemporalDecay(e.relations, entities, hebbian_config, now)
        IN
        /\ relations' = d.relations
        /\ coactivation_counts' = e.coactivation_counts
        /\ Value(ret') = [emergent_edges |-> e.new_edges, decayed_edges |-> Len(d.decayed)]
        /\ \A k \in (Len(relations) + 1)..Len(e.relations) :
            \E i \in DOMAIN relations' : relations'[i] = e.relations[k]]_vars

\* one consolidation has formed emergent edges and decayed a relation
C9_Witness ==
    /\ op = "consolidate_memory"
    /\ Value(ret).emergent_edges # <<>>
    /\ Value(ret).decayed_edges > 0

(***************************************************************************)
(* Persistence.                                                            *)
(***************************************************************************)
\* the loaded store has the entities, the relations in their order with the
\* fields the document holds, and the co-activation counters of the saved one
SameStoredFields ==
    /\ kg2[1].raised = NoError
    /\ kg2[1].entities = entities
    /\ kg2[1].label_to_id = label_to_id
    /\ kg2[1].relations = relations
    /\ kg2[1].coactivation_counts = coactivation_counts

\* C8: saving a store and loading the document into a fresh store gives the
\* same entities, the same relations in the same order with equal confidence,
\* activation_count, last_activated and cycles_since_last_activation (a
\* counter that every activated relation has), and the same co-activation
\* counters under the same pairs of entity ids.
C8_RoundTrip ==
    kg2 # NoStore =>
        /\ SameStoredFields
        /\ \A i \in DOMAIN kg2[1].relations :
            kg2[1].relations[i].last_activated # NoTime =>
                "cycles_since_last_activation" \in DOMAIN kg2[1].relations[i]

(***************************************************************************)
(* Errors.                                                                 *)
(***************************************************************************)
\* C10: no call of add_entity, add_relation, activate_relation,
\* activate_entities, increment_cycle_counters, form_emergent_connections,
\* apply_temporal_decay or consolidate_memory ends in a raised error.
C10_NoCallRaises == raised = NoError

(***************************************************************************)
(* Invariants of the data model.                                           *)
(***************************************************************************)
\* C11: after every operation, every relation of the store has a confidence
\* between min_strength and max_strength of the store's configuration.
C11_ConfidenceWithinBounds ==
    \A i \in DOMAIN relations :
        /\ hebbian_config.min_strength <= relations[i].confidence
        /\ relations[i].confidence <= hebbian_config.max_strength

\* C13: add_entity, called directly or by add_relation, leaves every entity
\* already stored as it was (type and properties included) and never stores a
\* second entity under a label; the id add_entity returns is the id of the
\* entity that had the label before the call, when there was one.
C13_OneEntityPerLabel ==
    [][op' \in {"add_entity", "add_relation"} =>
        /\ Len(entities') >= Len(entities)
        /\ SubSeq(entities', 1, Len(entities)) = entities
        /\ \A i, j \in DOMAIN entities' : entities'[i].label = entities'[j].label => i = j
        /\ op' = "add_entity" =>
            /\ HasEntity(entities', Value(ret'))
            /\ \A i \in DOMAIN entities :
                entities[i].label = EntityOf(entities', Value(ret')).label => entities[i].id = Value(ret')]_vars

\* add_entity with type "Concept" and properties has returned the id of an
\* entity that add_relation had created with type "Thing" and no properties
C13_Witness ==
    /\ op = "add_entity"
    /\ HasEntity(entities, Value(ret))
    /\ EntityOf(entities, Value(ret)).type = "Thing"
    /\ EntityOf(entities, Value(ret)).properties = NoProperties

(***************************************************************************)
(* Co-activation.                                                          *)
(***************************************************************************)
\* C16: activate_entities either changes neither the activation window nor a
\* counter (fewer than two entities resolved), or it appends the set of the
\* resolved entities, which are at least two, and adds exactly one to the
\* counter of every unordered pair of distinct resolved entities and nothing
\* to any other counter.
C16_EachPairCountedOnce ==
    [][op' = "activate_entities" =>
        IF activation_window' = activation_window
        THEN coactivation_counts' = coactivation_counts
        ELSE LET ids == activation_window'[Len(activation_window')] IN
             /\ Cardinality(ids) >= 2
             /\ \A a \in UsedIds(entities), b \in UsedIds(entities) :
                 CountOf(coactivation_counts', a, b) =
                     CountOf(coactivation_counts, a, b) + (IF a # b /\ a \in ids /\ b \in ids THEN 1 ELSE 0)]_vars

(***************************************************************************)
(* Calls that find nothing.                                                *)
(***************************************************************************)
\* the store has no relation with this triple of labels
NoSuchRelation(subject_label, predicate, object_label) ==
    \/ subject_label \notin DOMAIN label_to_id
    \/ object_label \notin DOMAIN label_to_id
    \/ ~\E i \in DOMAIN relations :
            /\ relations[i].subject_id = label_to_id[subject_label]
            /\ relations[i].predicate = predicate
            /\ relations[i].object_id = label_to_id[object_label]

\* C18: activate_relation with an unknown subject label, an unknown object
\* label or a triple that no relation has returns without error and leaves
\* the entities, the relations, the label index, the co-activation counters
\* and the activation window as they were.
C18_UnmatchedActivationIsNoOp ==
    [][\A x \in ActivationTriples :
        (NoSuchRelation(x[1], x[2], x[3]) /\ activate_relation(x[1], x[2], x[3])) =>
            /\ raised' = NoError
            /\ UNCHANGED store]_vars

\* activate_relation has returned on a store that holds a relation, and no
\* relation of the store has ever been activated
C18_Witness ==
    /\ op = "activate_relation"
    /\ raised = NoError
    /\ relations # <<>>
    /\ \A i \in DOMAIN relations : relations[i].activation_count = 0 /\ relations[i].last_activated = NoTime

\* C19: every relation form_emergent_connections creates has predicate
\* co_occurs_with, source hebbian_emergence, version emergent, activation
\* count 0, no last activation and confidence min(0.5, count * 0.1) for the
\* co-activation count of its pair; the list returned has one entry per
\* relation created, in order: subject label, object label, strength.
C19_EmergentRelationFields ==
    [][op' = "form_emergent_connections" =>
        /\ Len(relations') >= Len(relations)
        /\ Len(Value(ret')) = Len(relations') - Len(relations)
        /\ \A k \in (Len(relations) + 1)..Len(relations') :
            LET rel == relations'[k]
                count == CountOf(coactivation_counts, rel.subject_id, rel.object_id)
            IN
            /\ rel.predicate = "co_occurs_with"
            /\ rel.source = "hebbian_emergence"
            /\ rel.version = "emergent"
            /\ rel.activation_count = 0
            /\ rel.last_activated = NoTime
            /\ rel.confidence = (IF count >= 5 THEN 500000 ELSE count * 100000)
            /\ count = 3 => rel.confidence = 300000
            /\ Value(ret')[k - Len(relations)] =
                <<EntityOf(entities, rel.subject_id).label, EntityOf(entities, rel.object_id).label, rel.confidence>>]_vars

\* one call has created an edge of strength 0.3 and an edge at the cap 0.5
C19_Witness ==
    /\ op = "form_emergent_connections"
    /\ Len(Value(ret)) >= 2
    /\ \E i, j \in DOMAIN Value(ret) : Value(ret)[i][3] = 300000 /\ Value(ret)[j][3] = 500000

\* the last n elements of s, all of s when it has fewer
MostRecent(s, n) == IF Len(s) <= n THEN s ELSE SubSeq(s, Len(s) - n + 1, Len(s))

\* C20: the activation window never holds more than 100 entries, and an
\* activate_entities call that counts a co-activation leaves the window that
\* held before with one entry appended, cut to its 100 most recent entries:
\* once full, the oldest entry goes.
C20_WindowKeepsMostRecent ==
    [][op' = "activate_entities" =>
        /\ Len(activation_window') <= 100
        /\ coactivation_counts' # coactivation_counts =>
            \E ids \in SUBSET UsedIds(entities) :
                activation_window' = MostRecent(Append(activation_window, ids), 100)]_vars

\* 101 co-activations of A and B after two of A, B and C: the window is full
\* and its oldest entry is the second one appended
C20_Witness ==
    /\ op = "activate_entities"
    /\ Len(activation_window) = 100
    /\ Cardinality(activation_window[1]) = 3
    /\ Cardinality(activation_window[2]) = 2
    /\ \E k \in DOMAIN coactivation_counts : coactivation_counts[k].count = 101

(***************************************************************************)
(* Loading.                                                                *)
(***************************************************************************)
\* the key of the saved document for the pair (a, b)
SavedCount(items, a, b) ==
    LET ks == {k \in DOMAIN items : items[k].key = a \o <<"_">> \o b} IN
    IF ks = {} THEN 0 ELSE items[CHOOSE k \in ks : TRUE].count

\* C17: load_from_json leaves exactly the document's entities and relations,
\* in the document's order, and a label index of exactly their labels; every
\* configuration field of the document has the persisted value and every
\* other field the value it had; the co-activation counters are the
\* document's when it has them, and untouched when it has none.
C17_LoadReplacesAndMerges ==
    [][op' = "load_from_json" /\ kg2' = kg2 =>
        LET d == file[1] IN
        /\ raised' = NoError
        /\ Len(entities') = Len(d.entities)
        /\ \A i \in DOMAIN entities' :
            /\ entities'[i].id = d.entities[i].id
            /\ entities'[i].label = d.entities[i].label
            /\ entities'[i].type = d.entities[i].type
            /\ entities'[i].properties = d.entities[i].properties
        /\ DOMAIN label_to_id' = {d.entities[i].label : i \in DOMAIN d.entities}
        /\ \A i \in DOMAIN d.entities : label_to_id'[d.entities[i].label] = d.entities[i].id
        /\ Len(relations') = Len(d.relations)
        /\ \A i \in DOMAIN relations' : Relation_to_dict(relations'[i]) = d.relations[i]
        /\ DOMAIN hebbian_config' = DOMAIN hebbian_config
        /\ \A f \in DOMAIN hebbian_config :
            hebbian_config'[f] =
                IF "hebbian_config" \in DOMAIN d /\ f \in DOMAIN d.hebbian_config
                THEN d.hebbian_config[f] ELSE hebbian_config[f]
        /\ IF "coactivation_counts" \in DOMAIN d
           THEN /\ Len(coactivation_counts') = Len(d.coactivation_counts)
                /\ \A k \in DOMAIN coactivation_counts' :
                    SavedCount(d.coactivation_counts, coactivation_counts'[k].key[1], coactivation_counts'[k].key[2])
                        = coactivation_counts'[k].count
           ELSE coactivation_counts' = coactivation_counts]_vars

\* a store with the custom configuration, which had created entities and
\* counted a co-activation, has loaded a document that persists learning_rate
\* alone and no counters
C17_Witness ==
    /\ op = "load_from_json"
    /\ kg2 = NoStore
    /\ Len(uuid_stream) < 3
    /\ hebbian_config.learning_rate = Scale \div 5
    /\ hebbian_config.min_strength = Scale \div 5
    /\ Len(entities) = 3
    /\ "D" \notin DOMAIN label_to_id

SatisfiesSupplied(rel, subj, obj, q) ==
    /\ q.subject # <<>> => subj.label = q.subject[1]
    /\ q.subject_type # <<>> => subj.type = q.subject_type[1]
    /\ q.object_ # <<>> => obj.label = q.object_[1]
    /\ q.object_type # <<>> => obj.type = q.object_type[1]
    /\ q.predicate # <<>> => rel.predicate = q.predicate[1]
    /\ q.min_confidence # <<>> => rel.confidence >= q.min_confidence[1]
    /\ q.after # <<>> => rel.created_at >= q.after[1]
    /\ q.before # <<>> => rel.created_at <= q.before[1]
    /\ q.metadata_filter # <<>> =>
          \A i \in DOMAIN q.metadata_filter[1] :
              \E j \in DOMAIN rel.metadata : rel.metadata[j] = q.metadata_filter[1][i]

\* the triples of the relations at the positions of `at`, in that order
TriplesAt(at) ==
    [n \in DOMAIN at |->
        <<EntityOf(entities, relations[at[n]].subject_id), relations[at[n]],
          EntityOf(entities, relations[at[n]].object_id)>>]

\* the positions, ascending, of the relations whose triple satisfies q
RECURSIVE SatisfyingFrom(_, _)
SatisfyingFrom(q, k) ==
    IF k > Len(relations) THEN <<>>
    ELSE LET rest == SatisfyingFrom(q, k + 1)
             rel == relations[k]
         IN IF SatisfiesSupplied(rel, EntityOf(entities, rel.subject_id), EntityOf(entities, rel.object_id), q)
            THEN <<k>> \o rest ELSE rest

\* C14: query returns, in insertion order, exactly the (subject entity,
\* relation, object entity) triples that satisfy every filter for which a
\* value is passed, the empty string and 0 included, and leaves the store
\* as it is.
C14_QueryAppliesEverySuppliedFilter ==
    [][\A q \in Queries : query(q) => Value(ret') = TriplesAt(SatisfyingFrom(q, 1))]_vars

\* the number of relations that the descending stable order puts before relation i
Rank(i) ==
    Cardinality({j \in DOMAIN relations :
        \/ relations[j].confidence > relations[i].confidence
        \/ relations[j].confidence = relations[i].confidence /\ j < i})

\* C15: for every top_k >= 0, get_strongest_edges(top_k) returns
\* min(top_k, n) entries (subject label, predicate, object label,
\* confidence), those of highest confidence, in descending order, equal
\* confidences in insertion order, and leaves the store as it is.
C15_StrongestEdgesSortedStably ==
    [][\A top_k \in TopKs : get_strongest_edges(top_k) =>
          /\ Len(Value(ret')) = Min(top_k, Len(relations))
          /\ \A i \in DOMAIN relations :
                Rank(i) < top_k =>
                    Value(ret')[Rank(i) + 1] =
                        <<EntityOf(entities, relations[i].subject_id).label, relations[i].predicate,
                          EntityOf(entities, relations[i].object_id).label, relations[i].confidence>>
          /\ store' = store]_vars

\* the relations have confidences 0.7, 0.9, 0.7 and the two strongest were
\* asked for: the 0.9 one first, then the first of the two 0.7 ones
C15_Witness ==
    /\ op = "get_strongest_edges"
    /\ Len(relations) = 3
    /\ relations[1].confidence = relations[3].confidence
    /\ relations[2].confidence > relations[1].confidence
    /\ Value(ret) = << <<"A", "works_at", "C", relations[2].confidence>>,
                <<"A", "knows", "B", relations[1].confidence>> >>


(***************************************************************************)
(* apply_hebbian_learning (core/orchestrator/index.py).                    *)
(*                                                                         *)
(* A source triple string is the sequence of its words, the arrow parts    *)
(* "--" and "-->" being words of their own.  A reasoning step is the set   *)
(* of entity labels that occur in its data and inference text.  A dict     *)
(* argument is <<"dict", items>>, any other value <<"str", text>>, and an  *)
(* optional one is the empty sequence when it is None.                     *)
(***************************************************************************)
\* the methods class KnowledgeGraph defines
Methods ==
    {"__init__", "add_entity", "add_relation", "activate_relation", "activate_entities",
     "form_emergent_connections", "apply_temporal_decay", "get_edge_strength",
     "get_strongest_edges", "consolidate_memory", "save_to_json", "load_from_json", "query"}

\* the methods of the object passed as knowledge_graph
MethodsOf(knowledge_graph) == Methods

\* triple_pattern.match(triple_str): the positions of the first "--" and of
\* the first "-->" behind it with at least one word between them, or <<>>
Match(triple_str) ==
    LET opens == {i \in DOMAIN triple_str :
                     /\ triple_str[i] = "--"
                     /\ \E j \in DOMAIN triple_str : j > i + 1 /\ triple_str[j] = "-->"}
    IN
    IF opens = {} THEN <<>>
    ELSE LET i == CHOOSE x \in opens : \A y \in opens : x <= y
             closes == {j \in DOMAIN triple_str : j > i + 1 /\ triple_str[j] = "-->"}
             j == CHOOSE x \in closes : \A y \in closes : x <= y
         IN <<i, j>>

\* [s.strip() for s in match.groups()]
Groups(triple_str, m) ==
    <<SubSeq(triple_str, 1, m[1] - 1), SubSeq(triple_str, m[1] + 1, m[2] - 1),
      SubSeq(triple_str, m[2] + 1, Len(triple_str))>>

\* the text of a group of one word
Text(group) == group[1]

\* the stats the function starts from; emergent_edges is the list [] here and
\* an int after a consolidation, <<"list", l>> and <<"int", n>>
NoStats == [edges_strengthened |-> 0, entities_activated |-> 0, emergent_edges |-> <<"list", <<>>>>, decayed_edges |-> 0]

RECURSIVE StrengthenLoop(_, _, _, _, _, _, _)
\* the loop over source_triples, from triple k on
StrengthenLoop(source_triples, k, rels, edges_strengthened, l2i, cfg, t) ==
    IF k > Len(source_triples)
    THEN [relations |-> rels, edges_strengthened |-> edges_strengthened]
    ELSE LET m == Match(source_triples[k])
             g == Groups(source_triples[k], m)
         IN
         IF m # <<>> /\ g[1] # <<>> /\ g[2] # <<>> /\ g[3] # <<>>
         THEN StrengthenLoop(source_triples, k + 1,
                  ActivateRelation(rels, l2i, cfg, t, Text(g[1]), Text(g[2]), Text(g[3])),
                  edges_strengthened + 1, l2i, cfg, t)
         ELSE StrengthenLoop(source_triples, k + 1, rels, edges_strengthened, l2i, cfg, t)

\* activated_entities: the labels of the store that occur in a step
ActivatedEntities(reasoning_output, l2i) ==
    IF "reasoningPath" \notin DOMAIN reasoning_output THEN {}
    ELSE {label \in DOMAIN l2i :
             \E s \in DOMAIN reasoning_output.reasoningPath : label \in reasoning_output.reasoningPath[s]}

\* list(activated_entities): the labels of the set, in some order
Listings(S) == {l \in [1..Cardinality(S) -> S] : \A i, j \in DOMAIN l : l[i] = l[j] => i = j}

\* all(v.get("valid", False) for v in validation_results.values() if isinstance(v, dict))
AllValid(items) ==
    \A i \in DOMAIN items :
        items[i][2][1] = "dict" =>
            \E j \in DOMAIN items[i][2][2] : items[i][2][2][j] = <<"valid", TRUE>>

\* validation_passed
ValidationPassed(validation_results) ==
    /\ validation_results # <<>>
    /\ validation_results[1] # <<>>
    /\ AllValid(validation_results[1])

\* the store and the stats after the body of the try, the labels listed as
\* `listing`; an exception in it leaves what was done before it
ApplyHebbianLearning(knowledge_graph, rels, counts, window, l2i, ents, cfg, t, reasoning_output, listing, validation_results) ==
    IF "increment_cycle_counters" \notin MethodsOf(knowledge_graph)
    THEN [relations |-> rels, coactivation_counts |-> counts, activation_window |-> window,
          pruned |-> <<>>, consolidated |-> FALSE, stats |-> NoStats]
    ELSE LET source_triples == IF "source_triples" \in DOMAIN reasoning_output
                               THEN reasoning_output.source_triples ELSE <<>>
             s == StrengthenLoop(source_triples, 1, rels, 0, l2i, cfg, t)
             a == IF listing # <<>>
                  THEN ActivateEntities(window, counts, l2i, listing)
                  ELSE [activation_window |-> window, coactivation_counts |-> counts]
             stats == [NoStats EXCEPT !.edges_strengthened = s.edges_strengthened,
                                      !.entities_activated = Len(listing)]
             c == ConsolidateMemory(s.relations, a.coactivation_counts, ents, cfg, t)
         IN
         IF ~ValidationPassed(validation_results)
         THEN [relations |-> s.relations, coactivation_counts |-> a.coactivation_counts,
               activation_window |-> a.activation_window, pruned |-> <<>>,
               consolidated |-> FALSE, stats |-> stats]
         ELSE [relations |-> c.relations, coactivation_counts |-> c.coactivation_counts,
               activation_window |-> a.activation_window, pruned |-> c.pruned,
               consolidated |-> TRUE,
               stats |-> IF c.raised # NoError THEN stats
                         ELSE [stats EXCEPT !.emergent_edges = <<"int", Len(c.ret.emergent_edges)>>,
                                            !.decayed_edges = c.ret.decayed_edges]]

\* the reasoning outputs passed: none of the keys; the stored relation and a
\* step naming an unknown label; a relation that may not be stored; a string
\* without arrow and one without subject; the same triple twice
ReasoningOutputs ==
    {[conclusion |-> "none"],
     [source_triples |-> << <<"A", "--", "links", "-->", "B">> >>, reasoningPath |-> << {"A"}, {"B", "Z"} >>],
     [source_triples |-> << <<"A", "--", "links", "-->", "B">>, <<"B", "--", "links", "-->", "C">> >>, reasoningPath |-> <<>>],
     [source_triples |-> << <<"A", "links", "B">>, <<"--", "links", "-->", "B">> >>, reasoningPath |-> << {"A", "B"} >>],
     [source_triples |-> << <<"A", "--", "links", "-->", "B">>, <<"A", "--", "links", "-->", "B">> >>]}

\* the validation results passed: None, {}, all valid, one invalid, one
\* without "valid", a value that is no dict
ValidationResults ==
    {<<>>,
     << <<>> >>,
     << << <<"logical", <<"dict", << <<"valid", TRUE>>, <<"score", 1>> >> >> >>,
           <<"grounding", <<"dict", << <<"valid", TRUE>> >> >> >> >> >>,
     << << <<"logical", <<"dict", << <<"valid", TRUE>> >> >> >>,
           <<"grounding", <<"dict", << <<"valid", FALSE>> >> >> >> >> >>,
     << << <<"logical", <<"dict", << <<"score", 1>> >> >> >> >> >>,
     << << <<"logical", <<"str", "timeout">> >> >> >>}

apply_hebbian_learning(reasoning_output, validation_results) ==
    \E listing \in Listings(ActivatedEntities(reasoning_output, label_to_id)) :
        LET r == ApplyHebbianLearning("KnowledgeGraph", relations, coactivation_counts, activation_window,
                     label_to_id, entities, hebbian_config, now, reasoning_output, listing, validation_results)
        IN
        /\ op' = "apply_hebbian_learning"
        /\ relations' = r.relations
        /\ coactivation_counts' = r.coactivation_counts
        /\ activation_window' = r.activation_window
        /\ raised' = NoError
        /\ ret' = Returned("dict", r.stats)
        /\ pruned' = r.pruned
        /\ passes' = IF r.consolidated THEN passes + 1 ELSE passes
        /\ UNCHANGED <<entities, label_to_id, hebbian_config, now, uuid_stream, file, kg2, requests>>

(***************************************************************************)
(* Reasoning cycles: a store with relations from A to B and from B to C,   *)
(* on which reasoning cycles with every reasoning output and every         *)
(* validation result run while the clock advances; the store is also       *)
(* activated directly.                                                     *)
(***************************************************************************)
NextLearning ==
    \/ now = 0 /\ \E c \in {0, Scale \div 2, Scale} : add_relation("A", "links", "B", c)
    \/ now = 0 /\ add_relation("B", "links", "C", Scale \div 2)
    \/ activate_relation("A", "links", "B")
    \/ WithinWindow(<<"A", "B">>) /\ activate_entities(<<"A", "B">>)
    \/ /\ passes < MaxPasses
       /\ \E reasoning_output \in ReasoningOutputs, validation_results \in ValidationResults :
              apply_hebbian_learning(reasoning_output, validation_results)
    \/ tick

SpecLearning == Init /\ [][NextLearning]_vars


(***************************************************************************)
(* Reasoning cycles.                                                       *)
(***************************************************************************)
\* the (subject, predicate, object) a source triple string names, if it is
\* of the form subject --predicate--> object
Named(triple_str) ==
    IF Len(triple_str) = 5 /\ triple_str[2] = "--" /\ triple_str[4] = "-->"
    THEN <<triple_str[1], triple_str[3], triple_str[5]>> ELSE <<>>

\* the positions of the stored relations with that triple
Stored(triple) ==
    IF triple = <<>> \/ triple[1] \notin DOMAIN label_to_id \/ triple[3] \notin DOMAIN label_to_id
    THEN {}
    ELSE {i \in DOMAIN relations :
             /\ relations[i].subject_id = label_to_id[triple[1]]
             /\ relations[i].predicate = triple[2]
             /\ relations[i].object_id = label_to_id[triple[3]]}

\* the source triples of a reasoning output
SourceTriples(reasoning_output) ==
    IF "source_triples" \in DOMAIN reasoning_output THEN reasoning_output.source_triples ELSE <<>>

\* the position of the first stored relation a source triple names, when
\* that relation is below max_strength
Strengthenable(triple_str) ==
    {i \in Stored(Named(triple_str)) :
        /\ \A j \in Stored(Named(triple_str)) : i <= j
        /\ relations[i].confidence < hebbian_config.max_strength}

\* validation results are present and every one of them is a valid one
EveryResultValid(validation_results) ==
    /\ validation_results # <<>>
    /\ validation_results[1] # <<>>
    /\ \A i \in DOMAIN validation_results[1] :
          /\ validation_results[1][i][2][1] = "dict"
          /\ \E j \in DOMAIN validation_results[1][i][2][2] :
                validation_results[1][i][2][2][j] = <<"valid", TRUE>>

\* C21: after apply_hebbian_learning with every validation result valid,
\* each stored relation below max_strength that a source triple names has
\* strictly greater confidence than before, and edges_strengthened is at
\* least the number of such triples.
C21_UsedEdgesStrengthened ==
    [][\A reasoning_output \in ReasoningOutputs, validation_results \in ValidationResults :
          apply_hebbian_learning(reasoning_output, validation_results) /\ EveryResultValid(validation_results) =>
              LET triples == SourceTriples(reasoning_output) IN
              /\ \A k \in DOMAIN triples : \A i \in Strengthenable(triples[k]) :
                    /\ i \in DOMAIN relations'
                    /\ relations'[i].confidence > relations[i].confidence
              /\ Value(ret').edges_strengthened >= Cardinality({k \in DOMAIN triples : Strengthenable(triples[k]) # {}})]_vars

\* C25: within one apply_hebbian_learning cycle the store is consolidated
\* if and only if validation results are present and every one of them is
\* valid, and then after the activations of the cycle; any other cycle
\* performs its activations only, and creates, decays and removes no
\* relation.
C25_ConsolidatesIffValidated ==
    [][\A reasoning_output \in ReasoningOutputs, validation_results \in ValidationResults :
          apply_hebbian_learning(reasoning_output, validation_results) =>
              \E listing \in Listings(ActivatedEntities(reasoning_output, label_to_id)) :
                  LET s == StrengthenLoop(SourceTriples(reasoning_output), 1, relations, 0, label_to_id, hebbian_config, now)
                      a == IF listing # <<>>
                           THEN ActivateEntities(activation_window, coactivation_counts, label_to_id, listing)
                           ELSE [activation_window |-> activation_window, coactivation_counts |-> coactivation_counts]
                      c == ConsolidateMemory(s.relations, a.coactivation_counts, entities, hebbian_config, now)
                  IN
                  /\ activation_window' = a.activation_window
                  /\ IF EveryResultValid(validation_results)
                     THEN relations' = c.relations /\ coactivation_counts' = c.coactivation_counts
                     ELSE relations' = s.relations /\ coactivation_counts' = a.coactivation_counts]_vars


(***************************************************************************)
(* Clearing of the co-activation counters.                                 *)
(***************************************************************************)
\* C23: form_emergent_connections clears every co-activation counter if it
\* created at least one relation, and leaves every counter unchanged if it
\* created none, also the counters at or above the threshold whose pair is
\* already connected.
C23_CountersClearedIffEdgeCreated ==
    [][op' = "form_emergent_connections" =>
          IF Len(relations') > Len(relations)
          THEN coactivation_counts' = <<>>
          ELSE coactivation_counts' = coactivation_counts]_vars

\* a call created nothing and left a counter that had reached the threshold,
\* its pair being connected, next to a counter below the threshold
C23_Witness ==
    /\ op = "form_emergent_connections"
    /\ Value(ret) = <<>>
    /\ \E k \in DOMAIN coactivation_counts :
          /\ coactivation_counts[k].count >= hebbian_config.emergence_threshold
          /\ Connected(relations, coactivation_counts[k].key[1], coactivation_counts[k].key[2])
    /\ \E k \in DOMAIN coactivation_counts :
          coactivation_counts[k].count < hebbian_config.emergence_threshold


(***************************************************************************)
(* Relations that share a triple.                                          *)
(***************************************************************************)
\* C24: when several relations share the triple of a matching
\* activate_relation call, only the first of them in insertion order is
\* affected: its activation_count grows by exactly one and its
\* last_activated is set, and every other relation of the store, the later
\* duplicates included, is unchanged.
C24_OnlyFirstDuplicateActivated ==
    [][\A x \in ActivationTriples :
          activate_relation(x[1], x[2], x[3]) /\ Stored(x) # {} =>
              \E i \in Stored(x) :
                  /\ \A j \in Stored(x) : i <= j
                  /\ Len(relations') = Len(relations)
                  /\ relations'[i].activation_count = relations[i].activation_count + 1
                  /\ relations'[i].last_activated = now
                  /\ \A j \in DOMAIN relations : j # i => relations'[j] = relations[j]]_vars

\* two relations with the same triple, the first activated twice, the second
\* of another confidence and never activated
C24_Witness ==
    /\ op = "activate_relation"
    /\ Len(relations) = 2
    /\ relations[1].subject_id = relations[2].subject_id
    /\ relations[1].predicate = relations[2].predicate
    /\ relations[1].object_id = relations[2].object_id
    /\ relations[1].activation_count = 2
    /\ relations[2].activation_count = 0
    /\ relations[2].last_activated = NoTime
    /\ relations[2].confidence = Scale \div 2


(***************************************************************************)
(* The keys of the co-activation counters.                                 *)
(***************************************************************************)
\* C27: after any sequence of operations that includes load_from_json,
\* every entity id in a co-activation counter key is the id of an entity of
\* the entity store, also when a document without coactivation_counts is
\* loaded into a store that holds counters.
C27_CounterIdsResolve ==
    \A k \in DOMAIN coactivation_counts :
        /\ HasEntity(entities, coactivation_counts[k].key[1])
        /\ HasEntity(entities, coactivation_counts[k].key[2])

\* C28: after any sequence of activate_entities calls, label lists that
\* repeat a label included, every co-activation counter key is a pair of
\* two distinct entity ids, and no relation that form_emergent_connections
\* created has the same entity as subject and object.
C28_NoSelfPairs ==
    /\ \A k \in DOMAIN coactivation_counts :
          coactivation_counts[k].key[1] # coactivation_counts[k].key[2]
    /\ \A i \in DOMAIN relations :
          relations[i].source = "hebbian_emergence" => relations[i].subject_id # relations[i].object_id


(***************************************************************************)
(* Loads that fail: a store with a relation from A to B and a counter of   *)
(* (A, B) loads a file that is missing, is not JSON, or holds a document   *)
(* without a required field; some of the files are documents in full.      *)
(***************************************************************************)
\* the files: no such file; a text that is not JSON; documents without
\* "relations", without "entities", with an entity without "id" behind a
\* complete one, with a relation without "predicate" behind a complete one;
\* documents in full
Files ==
    LET full == {SaveToJson(SavedEntities, SavedRelations(c), CustomConfig, SavedCounts) : c \in SavedConfidences} IN
    {[raises |-> "FileNotFoundError"], [raises |-> "JSONDecodeError"]}
    \cup {Without(d, "relations") : d \in full}
    \cup {Without(d, "entities") : d \in full}
    \cup {[d EXCEPT !.entities[2] = Without(@, "id")] : d \in full}
    \cup {[d EXCEPT !.relations[2] = Without(@, "predicate")] : d \in full}
    \cup full

InitFailedLoad ==
    /\ entities = <<>>
    /\ relations = <<>>
    /\ label_to_id = <<>>
    /\ hebbian_config = DefaultConfig
    /\ activation_window = <<>>
    /\ coactivation_counts = <<>>
    /\ now = 0
    /\ uuid_stream \in StreamsUpDown
    /\ op = "__init__"
    /\ raised = NoError
    /\ ret = ReturnedNone
    /\ pruned = <<>>
    /\ passes = 0
    /\ file \in {<<f>> : f \in Files}
    /\ kg2 = NoStore
    /\ requests = NoRequests

NextFailedLoad ==
    \/ add_entity("D", "Concept", SomeProperties)
    \/ \E c \in {Scale \div 2, Scale} : add_relation("A", "links", "B", c)
    \/ activate_relation("A", "links", "B")
    \/ WithinWindow(<<"A", "B">>) /\ activate_entities(<<"A", "B">>)
    \/ load_from_json_in_place

SpecFailedLoad == InitFailedLoad /\ [][NextFailedLoad]_vars

\* C29: a load_from_json call that fails (unreadable file, invalid JSON, a
\* document without a required field) leaves the entities, relations, label
\* index, configuration and co-activation counters of the store exactly as
\* they were before the call.
C29_FailedLoadChangesNothing ==
    [][op' = "load_from_json" /\ raised' # NoError =>
          /\ entities' = entities
          /\ relations' = relations
          /\ label_to_id' = label_to_id
          /\ hebbian_config' = hebbian_config
          /\ coactivation_counts' = coactivation_counts]_vars


(***************************************************************************)
(* Construction with a configuration: KnowledgeGraph(hebbian_config=...)   *)
(* and the calls that read the configuration.                              *)
(***************************************************************************)
\* self.hebbian_config = hebbian_config or {...}: the defaults unless the
\* argument is a dict that is not empty
Constructed(hebbian_config_arg) ==
    IF hebbian_config_arg = <<>> \/ hebbian_config_arg[1] = <<>>
    THEN DefaultConfig
    ELSE hebbian_config_arg[1]

\* the arguments passed: None, {}, one field, three fields, all five
ConfigArguments ==
    {<<>>,
     << <<>> >>,
     <<[learning_rate |-> Scale \div 5]>>,
     <<[learning_rate |-> Scale \div 5, max_strength |-> Scale, emergence_threshold |-> 2]>>,
     <<CustomConfig>>}

InitConfig ==
    /\ entities = <<>>
    /\ relations = <<>>
    /\ label_to_id = <<>>
    /\ hebbian_config \in {Constructed(a) : a \in ConfigArguments}
    /\ activation_window = <<>>
    /\ coactivation_counts = <<>>
    /\ now = 0
    /\ uuid_stream \in StreamsUpDown
    /\ op = "__init__"
    /\ raised = NoError
    /\ ret = ReturnedNone
    /\ pruned = <<>>
    /\ passes = 0
    /\ file = NoFile
    /\ kg2 = NoStore
    /\ requests = NoRequests

NextConfig ==
    \/ now = 0 /\ add_relation("A", "links", "B", Scale \div 2)
    \/ \E x \in {<<"A", "links", "B">>, <<"B", "links", "A">>} : activate_relation(x[1], x[2], x[3])
    \/ WithinWindow(<<"A", "B">>) /\ activate_entities(<<"A", "B">>)
    \/ form_emergent_connections
    \/ passes < MaxPasses /\ apply_temporal_decay
    \/ passes < MaxPasses /\ consolidate_memory
    \/ tick

SpecConfig == InitConfig /\ [][NextConfig]_vars

\* C30: every store, however constructed, has learning_rate, decay_rate,
\* emergence_threshold, min_strength and max_strength defined, so that no
\* call fails to find a parameter it reads.
C30_EveryParameterDefined ==
    /\ {"learning_rate", "decay_rate", "emergence_threshold", "min_strength", "max_strength"} \subseteq DOMAIN hebbian_config
    /\ raised # "KeyError"


(***************************************************************************)
(* Forgetting: a relation from A to B of initial confidence 0 or 0.25 is   *)
(* activated once, early enough for a day to elapse, and never again; the  *)
(* clock keeps advancing and consolidate_memory keeps being run.  A        *)
(* consolidation that finds no relation inactive for a day changes         *)
(* nothing; one such call is made.                                         *)
(***************************************************************************)
\* some relation has been inactive for a day or more
SomeInactiveForADay ==
    \E i \in DOMAIN relations :
        relations[i].last_activated # NoTime /\ DaysInactive(relations[i].last_activated, now) > 0

\* no relation has been activated
NeverActivated == \A i \in DOMAIN relations : relations[i].activation_count = 0

\* the consolidations that are run
ConsolidateWhileForgetting ==
    /\ passes < MaxForgetPasses
    /\ SomeInactiveForADay \/ passes = 0
    /\ consolidate_memory

NextForget ==
    \/ now = 0 /\ passes = 0 /\ relations = <<>> /\ \E c \in {0, Scale \div 4} : add_relation("A", "links", "B", c)
    \/ NeverActivated /\ now + TicksPerDay <= MaxNow /\ activate_relation("A", "links", "B")
    \/ ConsolidateWhileForgetting
    \/ tick

\* the clock keeps advancing and consolidate_memory keeps being run
SpecForget ==
    Init /\ [][NextForget]_vars /\ WF_vars(tick) /\ WF_vars(ConsolidateWhileForgetting)

\* a relation that has been activated is in the store
Decaying == \E i \in DOMAIN relations : relations[i].last_activated # NoTime

WebDocuments ==
    {SaveToJson(SavedEntities, SavedRelations(c), CustomConfig, SavedCounts) : c \in SavedConfidences}

\* kg = KnowledgeGraph(); kg.load_from_json("output/knowledge_graph.json")
InitWeb ==
    \E d \in WebDocuments :
        LET kg == LoadFromJson(d, 0) IN
        /\ entities = kg.entities
        /\ relations = kg.relations
        /\ label_to_id = kg.label_to_id
        /\ hebbian_config = kg.hebbian_config
        /\ activation_window = kg.activation_window
        /\ coactivation_counts = kg.coactivation_counts
        /\ now = 0
        /\ uuid_stream \in StreamsUpDown
        /\ op = "load_from_json"
        /\ raised = kg.raised
        /\ ret = ReturnedNone
        /\ pruned = <<>>
        /\ passes = 0
        /\ file = <<d>>
        /\ kg2 = NoStore
        /\ requests = NoRequests

\* thread h takes a request: process_query up to its call of orchestrate
process_query(h) ==
    /\ requests[h].at = "idle"
    /\ requests' = [requests EXCEPT ![h].at = "reasoning"]
    /\ op' = "process_query"
    /\ raised' = NoError
    /\ ret' = ReturnedNone
    /\ pruned' = <<>>
    /\ UNCHANGED <<store, now, uuid_stream, passes, file, kg2>>

\* rm_result = rm_instance.run(query, knowledge_graph) in thread h: the
\* reasoning module reads the store and returns its output
rm_instance_run(h) ==
    /\ requests[h].at = "reasoning"
    /\ \E rm_result \in ReasoningOutputs :
           requests' = [requests EXCEPT ![h].at = "validation", ![h].rm_result = <<rm_result>>]
    /\ op' = "rm_instance.run"
    /\ raised' = NoError
    /\ ret' = ReturnedNone
    /\ pruned' = <<>>
    /\ UNCHANGED <<store, now, uuid_stream, passes, file, kg2>>

\* the loop over VN_REGISTRY in thread h: the validation nodes read the store
\* and fill validation_results
vn_function(h) ==
    /\ requests[h].at = "validation"
    /\ \E validation_results \in ValidationResults :
           requests' = [requests EXCEPT ![h].at = "learning", ![h].validation_results = <<validation_results>>]
    /\ op' = "vn_function"
    /\ raised' = NoError
    /\ ret' = ReturnedNone
    /\ pruned' = <<>>
    /\ UNCHANGED <<store, now, uuid_stream, passes, file, kg2>>

\* hebbian_stats = apply_hebbian_learning(knowledge_graph, rm_result, validation_results)
\* in thread h, and the return of orchestrate and process_query; the call
\* raises in its first statement on the store, so it is one step
orchestrate_return(h) ==
    /\ requests[h].at = "learning"
    /\ \E listing \in Listings(ActivatedEntities(requests[h].rm_result[1], label_to_id)) :
        LET r == ApplyHebbianLearning("KnowledgeGraph", relations, coactivation_counts, activation_window,
                     label_to_id, entities, hebbian_config, now, requests[h].rm_result[1], listing,
                     requests[h].validation_results[1])
        IN
        /\ relations' = r.relations
        /\ coactivation_counts' = r.coactivation_counts
        /\ activation_window' = r.activation_window
        /\ ret' = Returned("dict", r.stats)
        /\ pruned' = r.pruned
        /\ passes' = IF r.consolidated THEN passes + 1 ELSE passes
    /\ requests' = [requests EXCEPT ![h] = Idle]
    /\ op' = "orchestrate"
    /\ raised' = NoError
    /\ UNCHANGED <<entities, label_to_id, hebbian_config, now, uuid_stream, file, kg2>>

NextWeb ==
    \/ \E h \in Handlers : process_query(h)
    \/ \E h \in Handlers : rm_instance_run(h)
    \/ \E h \in Handlers : vn_function(h)
    \/ passes < MaxPasses /\ \E h \in Handlers : orchestrate_return(h)

SpecWeb == InitWeb /\ [][NextWeb]_vars

\* the threads that are inside a collaborator sequence on the store
Executing == {h \in Handlers : requests[h].at # "idle"}

\* C26: at any time at most one collaborator sequence is executing against
\* the store of the web application: no request handler is between its
\* read of the store and the end of its learning step while another is.
C26_OneSequenceAtATime == Cardinality(Executing) <= 1

====
